---- MODULE Spec2Model ----
(***************************************************************************)
(* Model of the logging pipeline of Cpp_Project_Logging_System:            *)
(*   RingBuffer<T>   loggingLib/inc/RingBuffer.hpp                          *)
(*   ThreadPool      loggingLib/src/concurrency/ThreadPool.hpp              *)
(*   LogManager      loggingLib/src/LogManager.cpp, include/LogManager.hpp  *)
(*   LogManagerBuilder  loggingLib/src/LogManagerBuilder.cpp               *)
(* Every step is one critical section of the code (one lock_guard /        *)
(* unique_lock scope) or one sink write executed by a worker.               *)
(***************************************************************************)
EXTENDS Integers, Sequences, FiniteSets, TLC

\* ------------------------------------------------------------------ bounds
\* Largest capacity a RingBuffer is constructed with (0 is accepted by the
\* constructor, RingBuffer.hpp:25-28).
MaxCap == 3
\* Number of caller threads (producers / flushers).
NumThreads == 2
\* Distinct payloads pushed in the ring-buffer specification.
MaxVal == 2
\* Successful pushes per behaviour of the ring-buffer specification.
MaxPushes == 4
\* Largest capacity of a LogManager's queue, and the most sinks registered.
MaxQueue == 2
MaxSinks == 2
\* Worker threads of the pool (numThreads of ThreadPool's constructor).
NumWorkers == 2
\* log() calls per behaviour when the callers are not otherwise limited.
MaxEvents == 3
\* log() calls per thread in the specification with fairness.
FairLogs == 1
\* Explicit flush() calls per behaviour.
MaxFlushes == 1
\* log() calls of each producer in the P-producers-times-K scenario.
LogsPerProducer == 2
\* Tasks submitted per behaviour when the pool is used on its own.
MaxTasks == 4

Threads == 1..NumThreads
Values == 1..MaxVal
Workers == 1..NumWorkers
SinkIds == 1..MaxSinks
\* std::nullopt: an empty slot of std::vector<std::optional<T>>, and the
\* result of tryPop on an empty queue.
NoValue == 0
\* The task slot of a worker that holds no task (a moved-from closure).
NoTask == [sink |-> NoValue, msg |-> NoValue]

VARIABLES
    \* RingBuffer<T> (RingBuffer.hpp:15-22)
    buffer,        \* std::vector<std::optional<T>> buffer
    head,          \* write index
    tail,          \* read index
    elemCount,
    maxCapacity,
    rpc,           \* per thread: position in a blocking push()/pop()
    rarg,          \* per thread: the value a blocked push() carries
    \* observation of the ring buffer's callers
    pushed,        \* values stored by successful push/tryPush, in order
    popped,        \* values returned by successful pop/tryPop, in order
    last,          \* the last completed call: [op, arg, ok, val]
    \* ThreadPool (ThreadPool.hpp:14-18)
    tasks,         \* std::queue<std::function<void()>>: [sink, msg] closures
    shutdown,
    wpc,           \* per worker: "ready" (about to lock and test the wait
                   \* predicate), "sleep" (inside cv.wait), "run", "exited"
    wtask,         \* per worker: the task it has removed and executes
    \* LogManager (LogManager.hpp:16-18) and its callers
    sinks,         \* std::vector<std::shared_ptr<ILogSink>>, in insertion order
    alive,         \* "active", "stopping" (destructor joins), "destroyed"
    pc,            \* per caller thread: "idle", "flush", "route",
                   \* "flushRet" (flush() has returned to its caller), "retry"
    inLog,         \* per thread: the running flush() is log()'s inline one
    logMsg,        \* per thread: the message of its current/last log()
    cur,           \* per thread: the message route() fans out
    ri,            \* per thread: index of route()'s next sink
    rend,          \* per thread: the end of the range route() iterates,
                   \* sinks.end() as evaluated when its loop began
    \* the sinks' side: ILogSink::write calls received, per sink, in order
    written,
    \* the callers' scenario and observation
    logsLeft,      \* per thread: log() calls it will still make
    flushesLeft,   \* explicit flush() calls still to be made
    nextId,        \* identity of the next message logged
    accepted,      \* messages a tryPush of log() stored
    dropped,       \* messages log() gave up after the failed retry
    drained,       \* messages flush() popped, in order
    flushLog,      \* per thread: messages popped by its current/last flush()
    submitted,     \* tasks ThreadPool::enqueue accepted, in order
    inlineFlushes, \* flush() calls made by log()
    attempts,      \* per thread: tryPush calls of its current/last log()
    callFlushes,   \* per thread: flush() calls of its current/last log()
    \* observation of the pool used on its own
    atShutdown,    \* the tasks queued or running when shutdown was set
    \* LogManagerBuilder (LogManagerBuilder.hpp:24-27) and its caller
    builderSinks,  \* std::vector<std::shared_ptr<ILogSink>> sinks
    bufferSize,
    threadPoolSize,
    errors,        \* std::vector<BuilderError>
    calls,         \* the calls made on the builder, in order
    result         \* what the last tryBuild()/build() returned

rbVars == <<buffer, head, tail, elemCount, maxCapacity, rpc>>
rbObs == <<rarg, pushed, popped, last>>
poolVars == <<tasks, shutdown, wpc, wtask>>
lmVars == <<sinks, alive, pc, inLog, logMsg, cur, ri>>
lmObs == <<logsLeft, flushesLeft, nextId, accepted, dropped, drained, flushLog,
           submitted, inlineFlushes, attempts, callFlushes>>
vars == <<buffer, head, tail, elemCount, maxCapacity, rpc, rarg,
          pushed, popped, last, tasks, shutdown, wpc, wtask, sinks, alive,
          pc, inLog, logMsg, cur, ri, written, logsLeft, flushesLeft, nextId,
          accepted, dropped, drained, flushLog, submitted, inlineFlushes,
          attempts, callFlushes, atShutdown, rend,
          builderSinks, bufferSize, threadPoolSize, errors, calls, result>>

bldVars == <<builderSinks, bufferSize, threadPoolSize, errors, calls, result>>

\* --------------------------------------------------------- program constants
\* std::size_t bufferSize = 100 and std::size_t threadPoolSize = 4 of a new
\* LogManagerBuilder (LogManagerBuilder.hpp:25-26).
DefaultBufferSize == 100
DefaultThreadPoolSize == 4

\* LogManagerBuilder() = default: no sink, no recorded error, the default
\* sizes. Nothing has been called on it and nothing built.
LogManagerBuilderInit ==
    /\ builderSinks = <<>>
    /\ bufferSize = DefaultBufferSize
    /\ threadPoolSize = DefaultThreadPoolSize
    /\ errors = <<>>
    /\ calls = <<>>
    /\ result = [ok |-> FALSE, err |-> "none"]

\* ------------------------------------------------------------ RingBuffer
\* RingBuffer(std::size_t capacity): buffer(capacity), maxCapacity(capacity)
RingBufferInit(capacity) ==
    /\ buffer = [i \in 0..(capacity - 1) |-> NoValue]
    /\ head = 0
    /\ tail = 0
    /\ elemCount = 0
    /\ maxCapacity = capacity
    /\ rpc = [t \in Threads |-> "idle"]

isEmpty_unlocked == elemCount = 0

isFull_unlocked == elemCount = maxCapacity

\* condition_variable::notify_one on the waiters in position `waiting`: one
\* of them (any) is woken; nothing happens when nobody waits.
NotifyOne(r, waiting, woken) ==
    IF \E u \in Threads : r[u] = waiting
    THEN {[r EXCEPT ![u] = woken] : u \in {x \in Threads : r[x] = waiting}}
    ELSE {r}

\* The stores of push/tryPush once the queue is known not to be full
\* (RingBuffer.hpp:63-65, 81-83), then notEmpty.notify_one().
StoreAtHead(r, value) ==
    /\ buffer' = [buffer EXCEPT ![head] = value]
    /\ head' = (head + 1) % maxCapacity
    /\ elemCount' = elemCount + 1
    /\ rpc' \in NotifyOne(r, "popWait", "popWoken")
    /\ UNCHANGED <<tail, maxCapacity>>

\* A dequeue that leaves out notFull.notify_one().
TakeAtTail_noNotify(r) ==
    /\ buffer' = [buffer EXCEPT ![tail] = NoValue]
    /\ tail' = (tail + 1) % maxCapacity
    /\ elemCount' = elemCount - 1
    /\ rpc' = r
    /\ UNCHANGED <<head, maxCapacity>>

\* The loads of pop/tryPop once the queue is known not to be empty
\* (RingBuffer.hpp:94-97, 112-115), then notFull.notify_one().
TakeAtTail(r) ==
    /\ buffer' = [buffer EXCEPT ![tail] = NoValue]
    /\ tail' = (tail + 1) % maxCapacity
    /\ elemCount' = elemCount - 1
    /\ rpc' \in NotifyOne(r, "pushWait", "pushWoken")
    /\ UNCHANGED <<head, maxCapacity>>

\* A tryPush that overwrites the slot at head when the queue is full.
tryPush_overwriteWhenFull(value, ret) ==
    IF isFull_unlocked
    THEN /\ ret = FALSE
         /\ buffer' = [i \in DOMAIN buffer |-> IF i = head THEN value ELSE buffer[i]]
         /\ UNCHANGED <<head, tail, elemCount, maxCapacity, rpc>>
    ELSE ret = TRUE /\ StoreAtHead(rpc, value)

\* bool tryPush(U&& value): ret is the value returned.
tryPush(value, ret) ==
    IF isFull_unlocked
    THEN ret = FALSE /\ UNCHANGED rbVars
    ELSE ret = TRUE /\ StoreAtHead(rpc, value)

\* A tryPop that returns the newest element instead of the oldest.
tryPop_newestFirst(ret) ==
    IF isEmpty_unlocked
    THEN ret = NoValue /\ UNCHANGED rbVars
    ELSE LET newest == (head + maxCapacity - 1) % maxCapacity IN
         /\ ret = buffer[newest]
         /\ buffer' = [buffer EXCEPT ![newest] = NoValue]
         /\ head' = newest
         /\ elemCount' = elemCount - 1
         /\ rpc' \in NotifyOne(rpc, "pushWait", "pushWoken")
         /\ UNCHANGED <<tail, maxCapacity>>

\* A tryPop that leaves out buffer[tail].reset().
tryPop_noReset(ret) ==
    IF isEmpty_unlocked
    THEN ret = NoValue /\ UNCHANGED rbVars
    ELSE /\ ret = buffer[tail]
         /\ tail' = (tail + 1) % maxCapacity
         /\ elemCount' = elemCount - 1
         /\ rpc' \in NotifyOne(rpc, "pushWait", "pushWoken")
         /\ UNCHANGED <<buffer, head, maxCapacity>>

\* std::optional<T> tryPop(): ret is the value returned, NoValue for nullopt.
tryPop(ret) ==
    IF isEmpty_unlocked
    THEN ret = NoValue /\ UNCHANGED rbVars
    ELSE ret = buffer[tail] /\ TakeAtTail(rpc)

\* void push(U&& value) by thread t: the first evaluation of the wait
\* predicate. A full queue suspends the thread in notFull.wait.
push(t, value) ==
    IF isFull_unlocked
    THEN /\ rpc' = [rpc EXCEPT ![t] = "pushWait"]
         /\ UNCHANGED <<buffer, head, tail, elemCount, maxCapacity>>
    ELSE StoreAtHead(rpc, value)

\* push() of thread t after a wake-up: the predicate is evaluated again
\* under the lock.
pushResume(t, value) ==
    IF isFull_unlocked
    THEN /\ rpc' = [rpc EXCEPT ![t] = "pushWait"]
         /\ UNCHANGED <<buffer, head, tail, elemCount, maxCapacity>>
    ELSE StoreAtHead([rpc EXCEPT ![t] = "idle"], value)

\* T pop() by thread t: first evaluation of the wait predicate.
pop(t, ret) ==
    IF isEmpty_unlocked
    THEN /\ ret = NoValue
         /\ rpc' = [rpc EXCEPT ![t] = "popWait"]
         /\ UNCHANGED <<buffer, head, tail, elemCount, maxCapacity>>
    ELSE ret = buffer[tail] /\ TakeAtTail(rpc)

\* pop() of thread t after a wake-up.
popResume(t, ret) ==
    IF isEmpty_unlocked
    THEN /\ ret = NoValue
         /\ rpc' = [rpc EXCEPT ![t] = "popWait"]
         /\ UNCHANGED <<buffer, head, tail, elemCount, maxCapacity>>
    ELSE ret = buffer[tail] /\ TakeAtTail([rpc EXCEPT ![t] = "idle"])

\* The buffered elements, oldest first: the elemCount slots from tail on.
Contents ==
    [i \in 1..elemCount |-> buffer[(tail + i - 1) % maxCapacity]]

\* ------------------------------------------- ring buffer under its callers
\* The ring-buffer specification has no pool, manager or sink.
NoManager ==
    /\ tasks = <<>> /\ shutdown = FALSE
    /\ wpc = [w \in Workers |-> "exited"]
    /\ wtask = [w \in Workers |-> NoTask]
    /\ sinks = <<>> /\ alive = "none"
    /\ pc = [t \in Threads |-> "idle"]
    /\ inLog = [t \in Threads |-> FALSE]
    /\ logMsg = [t \in Threads |-> NoValue]
    /\ cur = [t \in Threads |-> NoValue]
    /\ ri = [t \in Threads |-> 0]
    /\ written = [s \in SinkIds |-> <<>>]
    /\ logsLeft = [t \in Threads |-> 0]
    /\ flushesLeft = 0
    /\ nextId = 1
    /\ accepted = {} /\ dropped = {} /\ drained = <<>>
    /\ flushLog = [t \in Threads |-> {}]
    /\ submitted = <<>>
    /\ inlineFlushes = 0
    /\ attempts = [t \in Threads |-> 0]
    /\ callFlushes = [t \in Threads |-> 0]
    /\ atShutdown = <<>>
    /\ rend = [t \in Threads |-> 0]
    /\ LogManagerBuilderInit

PendingPushes == Cardinality({t \in Threads : rpc[t] \in {"pushWait", "pushWoken"}})

RBInit ==
    /\ \E capacity \in 0..MaxCap : RingBufferInit(capacity)
    /\ rarg = [t \in Threads |-> NoValue]
    /\ pushed = <<>>
    /\ popped = <<>>
    /\ last = [op |-> "none", arg |-> NoValue, ok |-> FALSE, val |-> NoValue]
    /\ NoManager

RBTryPush(t, v) ==
    /\ rpc[t] = "idle"
    /\ Len(pushed) + PendingPushes < MaxPushes
    /\ \E ret \in BOOLEAN :
        /\ tryPush(v, ret)
        /\ last' = [op |-> "tryPush", arg |-> v, ok |-> ret, val |-> NoValue]
        /\ pushed' = IF ret THEN Append(pushed, v) ELSE pushed
    /\ UNCHANGED <<rarg, popped>>
    /\ UNCHANGED <<poolVars, lmVars, written, lmObs, atShutdown, bldVars, rend>>

RBTryPop(t) ==
    /\ rpc[t] = "idle"
    /\ \E ret \in Values \cup {NoValue} :
        /\ tryPop(ret)
        /\ last' = [op |-> "tryPop", arg |-> NoValue, ok |-> (ret # NoValue), val |-> ret]
        /\ popped' = IF ret # NoValue THEN Append(popped, ret) ELSE popped
    /\ UNCHANGED <<rarg, pushed>>
    /\ UNCHANGED <<poolVars, lmVars, written, lmObs, atShutdown, bldVars, rend>>

RBPush(t, v) ==
    /\ rpc[t] = "idle"
    /\ Len(pushed) + PendingPushes < MaxPushes
    /\ push(t, v)
    /\ IF isFull_unlocked
       THEN rarg' = [rarg EXCEPT ![t] = v] /\ UNCHANGED <<pushed, last>>
       ELSE /\ pushed' = Append(pushed, v)
            /\ last' = [op |-> "push", arg |-> v, ok |-> TRUE, val |-> NoValue]
            /\ UNCHANGED rarg
    /\ UNCHANGED popped
    /\ UNCHANGED <<poolVars, lmVars, written, lmObs, atShutdown, bldVars, rend>>

RBPushResume(t) ==
    /\ rpc[t] = "pushWoken"
    /\ pushResume(t, rarg[t])
    /\ IF isFull_unlocked
       THEN UNCHANGED <<rarg, pushed, last>>
       ELSE /\ pushed' = Append(pushed, rarg[t])
            /\ last' = [op |-> "push", arg |-> rarg[t], ok |-> TRUE, val |-> NoValue]
            /\ rarg' = [rarg EXCEPT ![t] = NoValue]
    /\ UNCHANGED popped
    /\ UNCHANGED <<poolVars, lmVars, written, lmObs, atShutdown, bldVars, rend>>

RBPop(t) ==
    /\ rpc[t] = "idle"
    /\ \E ret \in Values \cup {NoValue} :
        /\ pop(t, ret)
        /\ IF ret = NoValue
           THEN UNCHANGED <<popped, last>>
           ELSE /\ popped' = Append(popped, ret)
                /\ last' = [op |-> "pop", arg |-> NoValue, ok |-> TRUE, val |-> ret]
    /\ UNCHANGED <<rarg, pushed>>
    /\ UNCHANGED <<poolVars, lmVars, written, lmObs, atShutdown, bldVars, rend>>

RBPopResume(t) ==
    /\ rpc[t] = "popWoken"
    /\ \E ret \in Values \cup {NoValue} :
        /\ popResume(t, ret)
        /\ IF ret = NoValue
           THEN UNCHANGED <<popped, last>>
           ELSE /\ popped' = Append(popped, ret)
                /\ last' = [op |-> "pop", arg |-> NoValue, ok |-> TRUE, val |-> ret]
    /\ UNCHANGED <<rarg, pushed>>
    /\ UNCHANGED <<poolVars, lmVars, written, lmObs, atShutdown, bldVars, rend>>

\* std::condition_variable::wait may return without a notification; the
\* predicate is then evaluated again.
RBSpuriousWake(t) ==
    /\ rpc[t] \in {"pushWait", "popWait"}
    /\ rpc' = [rpc EXCEPT ![t] = IF rpc[t] = "pushWait" THEN "pushWoken" ELSE "popWoken"]
    /\ UNCHANGED <<buffer, head, tail, elemCount, maxCapacity, rarg, pushed, popped, last>>
    /\ UNCHANGED <<poolVars, lmVars, written, lmObs, atShutdown, bldVars, rend>>

RBNext ==
    \E t \in Threads :
        \/ \E v \in Values : RBTryPush(t, v)
        \/ RBTryPop(t)
        \/ \E v \in Values : RBPush(t, v)
        \/ RBPushResume(t)
        \/ RBPop(t)
        \/ RBPopResume(t)
        \/ RBSpuriousWake(t)

SpecRB == RBInit /\ [][RBNext]_vars

\* A thread that a notification (or a spurious wake-up) has taken out of
\* wait() is scheduled again and evaluates its predicate.
RBFairness ==
    \A t \in Threads : WF_vars(RBPushResume(t)) /\ WF_vars(RBPopResume(t))

FairSpecRB == RBInit /\ [][RBNext]_vars /\ RBFairness

\* ------------------------------------- ring buffer, statement by statement
\* The same four operations with every statement of their bodies a step of
\* its own. rpc[t] is the statement thread t executes next; rarg[t] is its
\* argument `value` (push, tryPush) or its local `value` (pop, tryPop).
\* A thread at one of these statements owns bufferMutex.
InPushBody == {"store", "advanceHead", "incCount"}

InPopBody == {"take", "reset", "advanceTail", "decCount"}

\* A std::mutex that any number of threads may own at once.
bufferMutexFree_always == TRUE

\* std::mutex bufferMutex: lock() returns only while no thread owns it.
bufferMutexFree == \A u \in Threads : rpc[u] \notin InPushBody \cup InPopBody

\* tryPush up to  if (isFull_unlocked()) return false;
tryPushEnter(t, value, ret) ==
    /\ bufferMutexFree
    /\ IF isFull_unlocked
       THEN ret = FALSE /\ UNCHANGED <<rpc, rarg>>
       ELSE /\ ret = TRUE
            /\ rpc' = [rpc EXCEPT ![t] = "store"]
            /\ rarg' = [rarg EXCEPT ![t] = value]
    /\ UNCHANGED <<buffer, head, tail, elemCount, maxCapacity>>

\* push up to the end of notFull.wait(lock, pred), entered from the call
\* or after a wake-up: a full queue releases the mutex and suspends.
pushEnter(t, value) ==
    /\ bufferMutexFree
    /\ rpc' = [rpc EXCEPT ![t] = IF isFull_unlocked THEN "pushWait" ELSE "store"]
    /\ rarg' = [rarg EXCEPT ![t] = value]
    /\ UNCHANGED <<buffer, head, tail, elemCount, maxCapacity>>

\* buffer[head] = std::forward<U>(value);
store(t) ==
    /\ rpc[t] = "store"
    /\ buffer' = [buffer EXCEPT ![head] = rarg[t]]
    /\ rpc' = [rpc EXCEPT ![t] = "advanceHead"]
    /\ UNCHANGED <<head, tail, elemCount, maxCapacity, rarg>>

\* head = (head + 1) % maxCapacity;
advanceHead(t) ==
    /\ rpc[t] = "advanceHead"
    /\ head' = (head + 1) % maxCapacity
    /\ rpc' = [rpc EXCEPT ![t] = "incCount"]
    /\ UNCHANGED <<buffer, tail, elemCount, maxCapacity, rarg>>

\* ++elemCount; then the mutex is released, notEmpty.notify_one() runs and
\* the call returns (its argument is gone).
incCount(t) ==
    /\ rpc[t] = "incCount"
    /\ elemCount' = elemCount + 1
    /\ rpc' \in NotifyOne([rpc EXCEPT ![t] = "idle"], "popWait", "popWoken")
    /\ rarg' = [rarg EXCEPT ![t] = NoValue]
    /\ UNCHANGED <<buffer, head, tail, maxCapacity>>

\* tryPop up to  if (isEmpty_unlocked()) return std::nullopt;
tryPopEnter(t, ret) ==
    /\ bufferMutexFree
    /\ IF isEmpty_unlocked
       THEN ret = FALSE /\ UNCHANGED rpc
       ELSE ret = TRUE /\ rpc' = [rpc EXCEPT ![t] = "take"]
    /\ UNCHANGED <<buffer, head, tail, elemCount, maxCapacity, rarg>>

\* pop up to the end of notEmpty.wait(lock, pred).
popEnter(t) ==
    /\ bufferMutexFree
    /\ rpc' = [rpc EXCEPT ![t] = IF isEmpty_unlocked THEN "popWait" ELSE "take"]
    /\ UNCHANGED <<buffer, head, tail, elemCount, maxCapacity, rarg>>

\* T value = std::move(buffer[tail].value());
take(t) ==
    /\ rpc[t] = "take"
    /\ rarg' = [rarg EXCEPT ![t] = buffer[tail]]
    /\ rpc' = [rpc EXCEPT ![t] = "reset"]
    /\ UNCHANGED <<buffer, head, tail, elemCount, maxCapacity>>

\* buffer[tail].reset();
reset(t) ==
    /\ rpc[t] = "reset"
    /\ buffer' = [buffer EXCEPT ![tail] = NoValue]
    /\ rpc' = [rpc EXCEPT ![t] = "advanceTail"]
    /\ UNCHANGED <<head, tail, elemCount, maxCapacity, rarg>>

\* tail = (tail + 1) % maxCapacity;
advanceTail(t) ==
    /\ rpc[t] = "advanceTail"
    /\ tail' = (tail + 1) % maxCapacity
    /\ rpc' = [rpc EXCEPT ![t] = "decCount"]
    /\ UNCHANGED <<buffer, head, elemCount, maxCapacity, rarg>>

\* --elemCount; then the mutex is released, notFull.notify_one() runs and
\* the local value is returned.
decCount(t) ==
    /\ rpc[t] = "decCount"
    /\ elemCount' = elemCount - 1
    /\ rpc' \in NotifyOne([rpc EXCEPT ![t] = "idle"], "pushWait", "pushWoken")
    /\ rarg' = [rarg EXCEPT ![t] = NoValue]
    /\ UNCHANGED <<buffer, head, tail, maxCapacity>>

\* Pushes under way: suspended, woken or inside the body.
StartedPushes ==
    Cardinality({t \in Threads :
        rpc[t] \in {"pushWait", "pushWoken"} \cup InPushBody})

SRBTryPush(t, v) ==
    /\ rpc[t] = "idle"
    /\ Len(pushed) + StartedPushes < MaxPushes
    /\ \E ret \in BOOLEAN :
        /\ tryPushEnter(t, v, ret)
        /\ last' = IF ret THEN last
                   ELSE [op |-> "tryPush", arg |-> v, ok |-> FALSE, val |-> NoValue]
    /\ UNCHANGED <<pushed, popped>>
    /\ UNCHANGED <<poolVars, lmVars, written, lmObs, atShutdown, bldVars, rend>>

SRBPush(t, v) ==
    /\ rpc[t] = "idle"
    /\ Len(pushed) + StartedPushes < MaxPushes
    /\ pushEnter(t, v)
    /\ UNCHANGED <<pushed, popped, last>>
    /\ UNCHANGED <<poolVars, lmVars, written, lmObs, atShutdown, bldVars, rend>>

SRBPushResume(t) ==
    /\ rpc[t] = "pushWoken"
    /\ pushEnter(t, rarg[t])
    /\ UNCHANGED <<pushed, popped, last>>
    /\ UNCHANGED <<poolVars, lmVars, written, lmObs, atShutdown, bldVars, rend>>

SRBStore(t) ==
    /\ store(t)
    /\ UNCHANGED <<pushed, popped, last>>
    /\ UNCHANGED <<poolVars, lmVars, written, lmObs, atShutdown, bldVars, rend>>

SRBAdvanceHead(t) ==
    /\ advanceHead(t)
    /\ UNCHANGED <<pushed, popped, last>>
    /\ UNCHANGED <<poolVars, lmVars, written, lmObs, atShutdown, bldVars, rend>>

\* The push returns: it has stored its value.
SRBIncCount(t) ==
    /\ incCount(t)
    /\ pushed' = Append(pushed, rarg[t])
    /\ last' = [op |-> "push", arg |-> rarg[t], ok |-> TRUE, val |-> NoValue]
    /\ UNCHANGED popped
    /\ UNCHANGED <<poolVars, lmVars, written, lmObs, atShutdown, bldVars, rend>>

SRBTryPop(t) ==
    /\ rpc[t] = "idle"
    /\ \E ret \in BOOLEAN :
        /\ tryPopEnter(t, ret)
        /\ last' = IF ret THEN last
                   ELSE [op |-> "tryPop", arg |-> NoValue, ok |-> FALSE, val |-> NoValue]
    /\ UNCHANGED <<pushed, popped>>
    /\ UNCHANGED <<poolVars, lmVars, written, lmObs, atShutdown, bldVars, rend>>

SRBPop(t) ==
    /\ rpc[t] = "idle"
    /\ popEnter(t)
    /\ UNCHANGED <<pushed, popped, last>>
    /\ UNCHANGED <<poolVars, lmVars, written, lmObs, atShutdown, bldVars, rend>>

SRBPopResume(t) ==
    /\ rpc[t] = "popWoken"
    /\ popEnter(t)
    /\ UNCHANGED <<pushed, popped, last>>
    /\ UNCHANGED <<poolVars, lmVars, written, lmObs, atShutdown, bldVars, rend>>

SRBTake(t) ==
    /\ take(t)
    /\ UNCHANGED <<pushed, popped, last>>
    /\ UNCHANGED <<poolVars, lmVars, written, lmObs, atShutdown, bldVars, rend>>

SRBReset(t) ==
    /\ reset(t)
    /\ UNCHANGED <<pushed, popped, last>>
    /\ UNCHANGED <<poolVars, lmVars, written, lmObs, atShutdown, bldVars, rend>>

SRBAdvanceTail(t) ==
    /\ advanceTail(t)
    /\ UNCHANGED <<pushed, popped, last>>
    /\ UNCHANGED <<poolVars, lmVars, written, lmObs, atShutdown, bldVars, rend>>

\* The pop returns its local value.
SRBDecCount(t) ==
    /\ decCount(t)
    /\ popped' = Append(popped, rarg[t])
    /\ last' = [op |-> "pop", arg |-> NoValue, ok |-> TRUE, val |-> rarg[t]]
    /\ UNCHANGED pushed
    /\ UNCHANGED <<poolVars, lmVars, written, lmObs, atShutdown, bldVars, rend>>

SRBNext ==
    \E t \in Threads :
        \/ \E v \in Values : SRBTryPush(t, v)
        \/ \E v \in Values : SRBPush(t, v)
        \/ SRBPushResume(t)
        \/ SRBStore(t)
        \/ SRBAdvanceHead(t)
        \/ SRBIncCount(t)
        \/ SRBTryPop(t)
        \/ SRBPop(t)
        \/ SRBPopResume(t)
        \/ SRBTake(t)
        \/ SRBReset(t)
        \/ SRBAdvanceTail(t)
        \/ SRBDecCount(t)
        \/ RBSpuriousWake(t)

SpecRBStatements == RBInit /\ [][SRBNext]_vars

\* ------------------------------------------------------------ ThreadPool
\* ThreadPool(std::size_t numThreads): the workers are spawned at once and
\* each starts workerLoop.
ThreadPoolInit ==
    /\ tasks = <<>>
    /\ shutdown = FALSE
    /\ wpc = [w \in Workers |-> "ready"]
    /\ wtask = [w \in Workers |-> NoTask]

\* cv.notify_one(): one worker inside cv.wait (any) is woken.
NotifyOneWorker(p) ==
    IF \E w \in Workers : p[w] = "sleep"
    THEN {[p EXCEPT ![w] = "ready"] : w \in {x \in Workers : p[x] = "sleep"}}
    ELSE {p}

\* cv.notify_all()
NotifyAllWorkers(p) ==
    [w \in Workers |-> IF p[w] = "sleep" THEN "ready" ELSE p[w]]

\* An enqueue that leaves out cv.notify_one().
enqueue_noNotify(task, ret) ==
    IF shutdown
    THEN ret = FALSE /\ UNCHANGED <<tasks, wpc>>
    ELSE /\ ret = TRUE
         /\ tasks' = Append(tasks, task)
         /\ UNCHANGED wpc

\* An enqueue that does not test the shutdown flag.
enqueue_acceptAfterShutdown(task, ret) ==
    /\ ret = TRUE
    /\ tasks' = Append(tasks, task)
    /\ wpc' \in NotifyOneWorker(wpc)

\* An enqueue that hands the task over only once a worker is free.
enqueue_waitForWorker(task, ret) ==
    /\ \E w \in Workers : wpc[w] = "sleep"
    /\ IF shutdown
       THEN ret = FALSE /\ UNCHANGED <<tasks, wpc>>
       ELSE /\ ret = TRUE
            /\ tasks' = Append(tasks, task)
            /\ wpc' \in NotifyOneWorker(wpc)

\* bool ThreadPool::enqueue(std::function<void()> task)
enqueue(task, ret) ==
    IF shutdown
    THEN ret = FALSE /\ UNCHANGED <<tasks, wpc>>
    ELSE /\ ret = TRUE
         /\ tasks' = Append(tasks, task)
         /\ wpc' \in NotifyOneWorker(wpc)

\* A workerLoop that leaves out tasks.pop().
workerLoop_noPop(w) ==
    /\ wpc[w] = "ready"
    /\ IF tasks # <<>>
       THEN /\ wtask' = [wtask EXCEPT ![w] = Head(tasks)]
            /\ wpc' = [wpc EXCEPT ![w] = "run"]
            /\ UNCHANGED tasks
       ELSE /\ wpc' = [wpc EXCEPT ![w] = IF shutdown THEN "exited" ELSE "sleep"]
            /\ UNCHANGED <<tasks, wtask>>
    /\ UNCHANGED shutdown

\* A workerLoop that returns as soon as shutdown is set, whatever is queued.
workerLoop_exitOnShutdown(w) ==
    /\ wpc[w] = "ready"
    /\ IF shutdown
       THEN /\ wpc' = [wpc EXCEPT ![w] = "exited"]
            /\ UNCHANGED <<tasks, wtask>>
       ELSE IF tasks # <<>>
            THEN /\ wtask' = [wtask EXCEPT ![w] = Head(tasks)]
                 /\ tasks' = Tail(tasks)
                 /\ wpc' = [wpc EXCEPT ![w] = "run"]
            ELSE /\ wpc' = [wpc EXCEPT ![w] = "sleep"]
                 /\ UNCHANGED <<tasks, wtask>>
    /\ UNCHANGED shutdown

\* A workerLoop that removes the task submitted last.
workerLoop_takeNewest(w) ==
    /\ wpc[w] = "ready"
    /\ IF tasks # <<>>
       THEN /\ wtask' = [wtask EXCEPT ![w] = tasks[Len(tasks)]]
            /\ tasks' = SubSeq(tasks, 1, Len(tasks) - 1)
            /\ wpc' = [wpc EXCEPT ![w] = "run"]
       ELSE /\ wpc' = [wpc EXCEPT ![w] = IF shutdown THEN "exited" ELSE "sleep"]
            /\ UNCHANGED <<tasks, wtask>>
    /\ UNCHANGED shutdown

\* A workerLoop that takes a task only while no other worker executes one.
workerLoop_oneAtATime(w) ==
    /\ wpc[w] = "ready"
    /\ \A v \in Workers : wpc[v] # "run"
    /\ IF tasks # <<>>
       THEN /\ wtask' = [wtask EXCEPT ![w] = Head(tasks)]
            /\ tasks' = Tail(tasks)
            /\ wpc' = [wpc EXCEPT ![w] = "run"]
       ELSE /\ wpc' = [wpc EXCEPT ![w] = IF shutdown THEN "exited" ELSE "sleep"]
            /\ UNCHANGED <<tasks, wtask>>
    /\ UNCHANGED shutdown

\* workerLoop, from taking taskMutex to releasing it: the wait predicate
\* (!tasks.empty() || shutdown), the exit test and the removal of the front
\* task.
workerLoop(w) ==
    /\ wpc[w] = "ready"
    /\ IF tasks # <<>>
       THEN /\ wtask' = [wtask EXCEPT ![w] = Head(tasks)]
            /\ tasks' = Tail(tasks)
            /\ wpc' = [wpc EXCEPT ![w] = "run"]
       ELSE /\ wpc' = [wpc EXCEPT ![w] = IF shutdown THEN "exited" ELSE "sleep"]
            /\ UNCHANGED <<tasks, wtask>>
    /\ UNCHANGED shutdown

\* ILogSink::write(msg) as the sinks of the repository implement it: the
\* message is appended to the sink's output.
write(s, msg) == written' = [written EXCEPT ![s] = Append(@, msg)]

\* task(): the closure of LogManager::route, sinkCopy->write(msgCopy).
runTask(w) ==
    /\ wpc[w] = "run"
    /\ write(wtask[w].sink, wtask[w].msg)
    /\ wpc' = [wpc EXCEPT ![w] = "ready"]
    /\ wtask' = [wtask EXCEPT ![w] = NoTask]
    /\ UNCHANGED <<tasks, shutdown>>

\* ~ThreadPool() up to the joins: shutdown = true under taskMutex, then
\* cv.notify_all().
beginShutdown ==
    /\ shutdown' = TRUE
    /\ wpc' = NotifyAllWorkers(wpc)
    /\ UNCHANGED <<tasks, wtask>>

\* ~ThreadPool(), first block: shutdown = true under taskMutex.
shutdownFlag ==
    /\ shutdown' = TRUE
    /\ UNCHANGED <<tasks, wpc, wtask>>

\* A destructor that wakes a single worker.
shutdownNotify_one ==
    /\ wpc' \in NotifyOneWorker(wpc)
    /\ UNCHANGED <<tasks, shutdown, wtask>>

\* ~ThreadPool(), after the lock is released: cv.notify_all().
shutdownNotify ==
    /\ wpc' = NotifyAllWorkers(wpc)
    /\ UNCHANGED <<tasks, shutdown, wtask>>

\* worker.join() has returned for every worker.
AllJoined == \A w \in Workers : wpc[w] = "exited"

\* ------------------------------------------------------------ LogManager
\* LogManager(bufferCapacity, numThreads) followed by addSink for each of
\* nSinks sinks (LogManagerBuilder::tryBuild does exactly this).
LogManagerInit(bufferCapacity, nSinks) ==
    /\ RingBufferInit(bufferCapacity)
    /\ ThreadPoolInit
    /\ sinks = [i \in 1..nSinks |-> i]
    /\ alive = "active"
    /\ pc = [t \in Threads |-> "idle"]
    /\ inLog = [t \in Threads |-> FALSE]
    /\ logMsg = [t \in Threads |-> NoValue]
    /\ cur = [t \in Threads |-> NoValue]
    /\ ri = [t \in Threads |-> 0]
    /\ written = [s \in SinkIds |-> <<>>]

\* What the callers have observed before the first call.
ObsInit ==
    /\ rarg = [t \in Threads |-> NoValue]
    /\ pushed = <<>> /\ popped = <<>>
    /\ last = [op |-> "none", arg |-> NoValue, ok |-> FALSE, val |-> NoValue]
    /\ nextId = 1
    /\ accepted = {} /\ dropped = {} /\ drained = <<>>
    /\ flushLog = [t \in Threads |-> {}]
    /\ submitted = <<>>
    /\ inlineFlushes = 0
    /\ attempts = [t \in Threads |-> 0]
    /\ callFlushes = [t \in Threads |-> 0]
    /\ atShutdown = <<>>
    /\ rend = [t \in Threads |-> 0]
    /\ LogManagerBuilderInit

\* A log() with the earlier overflow policy: a full queue drops the message.
log_dropWhenFull(t, msg) ==
    /\ pc[t] = "idle"
    /\ alive = "active"
    /\ \E ret \in BOOLEAN :
        /\ tryPush(msg, ret)
        /\ IF ret
           THEN accepted' = accepted \cup {msg} /\ UNCHANGED dropped
           ELSE dropped' = dropped \cup {msg} /\ UNCHANGED accepted
    /\ callFlushes' = [callFlushes EXCEPT ![t] = 0]
    /\ logMsg' = [logMsg EXCEPT ![t] = msg]
    /\ attempts' = [attempts EXCEPT ![t] = 1]
    /\ UNCHANGED <<poolVars, sinks, alive, pc, inLog, cur, ri, written, drained,
                   flushLog, submitted, inlineFlushes>>

\* void LogManager::log(msg), first statement: buffer.tryPush(msg); a full
\* queue makes the thread enter flush().
log(t, msg) ==
    /\ pc[t] = "idle"
    /\ alive = "active"
    /\ \E ret \in BOOLEAN :
        /\ tryPush(msg, ret)
        /\ IF ret
           THEN /\ accepted' = accepted \cup {msg}
                /\ UNCHANGED <<pc, inLog, inlineFlushes, flushLog>>
                /\ callFlushes' = [callFlushes EXCEPT ![t] = 0]
           ELSE /\ pc' = [pc EXCEPT ![t] = "flush"]
                /\ inLog' = [inLog EXCEPT ![t] = TRUE]
                /\ inlineFlushes' = inlineFlushes + 1
                /\ callFlushes' = [callFlushes EXCEPT ![t] = 1]
                /\ flushLog' = [flushLog EXCEPT ![t] = {}]
                /\ UNCHANGED accepted
    /\ logMsg' = [logMsg EXCEPT ![t] = msg]
    /\ attempts' = [attempts EXCEPT ![t] = 1]
    /\ UNCHANGED <<poolVars, sinks, alive, cur, ri, written, dropped, drained,
                   submitted>>

\* A log() that flushes and retries until the message is stored.
logRetry_untilStored(t) ==
    /\ pc[t] = "retry"
    /\ \E ret \in BOOLEAN :
        /\ tryPush(logMsg[t], ret)
        /\ IF ret
           THEN /\ accepted' = accepted \cup {logMsg[t]}
                /\ pc' = [pc EXCEPT ![t] = "idle"]
                /\ inLog' = [inLog EXCEPT ![t] = FALSE]
                /\ UNCHANGED <<inlineFlushes, callFlushes>>
           ELSE /\ pc' = [pc EXCEPT ![t] = "flush"]
                /\ inlineFlushes' = inlineFlushes + 1
                /\ callFlushes' = [callFlushes EXCEPT ![t] = callFlushes[t] + 1]
                /\ UNCHANGED <<accepted, inLog>>
    /\ attempts' = [attempts EXCEPT ![t] = attempts[t] + 1]
    /\ UNCHANGED <<poolVars, sinks, alive, logMsg, cur, ri, written, dropped,
                   drained, flushLog, submitted>>

\* log(), last statement: (void)buffer.tryPush(msg) after flush() returned.
logRetry(t) ==
    /\ pc[t] = "retry"
    /\ \E ret \in BOOLEAN :
        /\ tryPush(logMsg[t], ret)
        /\ IF ret
           THEN accepted' = accepted \cup {logMsg[t]} /\ UNCHANGED dropped
           ELSE dropped' = dropped \cup {logMsg[t]} /\ UNCHANGED accepted
    /\ attempts' = [attempts EXCEPT ![t] = attempts[t] + 1]
    /\ pc' = [pc EXCEPT ![t] = "idle"]
    /\ inLog' = [inLog EXCEPT ![t] = FALSE]
    /\ UNCHANGED <<poolVars, sinks, alive, logMsg, cur, ri, written, drained,
                   flushLog, submitted, inlineFlushes, callFlushes>>

\* A caller enters LogManager::flush().
flushCall(t) ==
    /\ pc[t] = "idle"
    /\ alive = "active"
    /\ pc' = [pc EXCEPT ![t] = "flush"]
    /\ flushLog' = [flushLog EXCEPT ![t] = {}]
    /\ UNCHANGED <<rbVars, poolVars, sinks, alive, inLog, logMsg, cur, ri,
                   written, accepted, dropped, drained, submitted,
                   inlineFlushes, attempts, callFlushes>>

\* flush(): one evaluation of  while (auto msg = buffer.tryPop()).  nullopt
\* ends the loop and flush() returns (into log() when log() called it); a
\* message enters route(), whose loop is over at once without sinks.
flush(t) ==
    /\ pc[t] = "flush"
    /\ \E ret \in (1..(nextId - 1)) \cup {NoValue} :
        /\ tryPop(ret)
        /\ IF ret = NoValue
           THEN /\ pc' = [pc EXCEPT ![t] = IF inLog[t] THEN "retry" ELSE "flushRet"]
                /\ UNCHANGED <<cur, ri, drained, flushLog>>
           ELSE /\ drained' = Append(drained, ret)
                /\ flushLog' = [flushLog EXCEPT ![t] = @ \cup {ret}]
                /\ IF sinks = <<>>
                   THEN UNCHANGED <<pc, cur, ri>>
                   ELSE /\ pc' = [pc EXCEPT ![t] = "route"]
                        /\ cur' = [cur EXCEPT ![t] = ret]
                        /\ ri' = [ri EXCEPT ![t] = 1]
    /\ UNCHANGED <<poolVars, sinks, alive, inLog, logMsg, written, accepted,
                   dropped, submitted, inlineFlushes, attempts, callFlushes>>

\* A route() that walks the registry from its last sink to its first.
route_lastSinkFirst(t) ==
    /\ pc[t] = "route"
    /\ LET task == [sink |-> sinks[Len(sinks) + 1 - ri[t]], msg |-> cur[t]] IN
       \E ret \in BOOLEAN :
        /\ enqueue(task, ret)
        /\ submitted' = IF ret THEN Append(submitted, task) ELSE submitted
    /\ IF ri[t] = Len(sinks)
       THEN /\ pc' = [pc EXCEPT ![t] = "flush"]
            /\ cur' = [cur EXCEPT ![t] = NoValue]
            /\ ri' = [ri EXCEPT ![t] = 0]
       ELSE /\ ri' = [ri EXCEPT ![t] = ri[t] + 1]
            /\ UNCHANGED <<pc, cur>>
    /\ UNCHANGED <<rbVars, shutdown, wtask, sinks, alive, inLog, logMsg,
                   written, accepted, dropped, drained, flushLog,
                   inlineFlushes, attempts, callFlushes>>

\* A route() that submits the task of the first sink only.
route_firstSinkOnly(t) ==
    /\ pc[t] = "route"
    /\ LET task == [sink |-> sinks[ri[t]], msg |-> cur[t]] IN
       \E ret \in BOOLEAN :
        /\ enqueue(task, ret)
        /\ submitted' = IF ret THEN Append(submitted, task) ELSE submitted
    /\ pc' = [pc EXCEPT ![t] = "flush"]
    /\ cur' = [cur EXCEPT ![t] = NoValue]
    /\ ri' = [ri EXCEPT ![t] = 0]
    /\ UNCHANGED <<rbVars, shutdown, wtask, sinks, alive, inLog, logMsg,
                   written, accepted, dropped, drained, flushLog,
                   inlineFlushes, attempts, callFlushes>>

\* route(msg): one iteration of  for (const auto &sink : sinks): the copies
\* and threadPool->enqueue of the closure, whose result is ignored.
route(t) ==
    /\ pc[t] = "route"
    /\ LET task == [sink |-> sinks[ri[t]], msg |-> cur[t]] IN
       \E ret \in BOOLEAN :
        /\ enqueue(task, ret)
        /\ submitted' = IF ret THEN Append(submitted, task) ELSE submitted
    /\ IF ri[t] = Len(sinks)
       THEN /\ pc' = [pc EXCEPT ![t] = "flush"]
            /\ cur' = [cur EXCEPT ![t] = NoValue]
            /\ ri' = [ri EXCEPT ![t] = 0]
       ELSE /\ ri' = [ri EXCEPT ![t] = ri[t] + 1]
            /\ UNCHANGED <<pc, cur>>
    /\ UNCHANGED <<rbVars, shutdown, wtask, sinks, alive, inLog, logMsg,
                   written, accepted, dropped, drained, flushLog,
                   inlineFlushes, attempts, callFlushes>>

\* The implicit ~LogManager(): the members go in reverse order of
\* declaration, threadPool first. Nothing flushes the queue. The owner
\* destroys the manager only when no call is running on it.
destroyBegin ==
    /\ alive = "active"
    /\ \A t \in Threads : pc[t] = "idle"
    /\ beginShutdown
    /\ alive' = "stopping"
    /\ UNCHANGED <<rbVars, sinks, pc, inLog, logMsg, cur, ri, written>>

\* The joins of ~ThreadPool() have returned; buffer and sinks are released.
destroyEnd ==
    /\ alive = "stopping"
    /\ AllJoined
    /\ alive' = "destroyed"
    /\ UNCHANGED <<rbVars, poolVars, sinks, pc, inLog, logMsg, cur, ri, written>>

\* ------------------------------------------------ the manager's environment
LMLog(t) ==
    /\ logsLeft[t] > 0
    /\ log(t, nextId)
    /\ nextId' = nextId + 1
    /\ logsLeft' = [logsLeft EXCEPT ![t] = @ - 1]
    /\ UNCHANGED <<rbObs, atShutdown, bldVars, rend, flushesLeft>>

LMLogRetry(t) == logRetry(t) /\ UNCHANGED <<rbObs, atShutdown, bldVars, rend, logsLeft, flushesLeft, nextId>>

LMFlushCall(t) ==
    /\ flushesLeft > 0
    /\ flushCall(t)
    /\ flushesLeft' = flushesLeft - 1
    /\ UNCHANGED <<rbObs, atShutdown, bldVars, rend, logsLeft, nextId>>

LMFlush(t) == flush(t) /\ UNCHANGED <<rbObs, atShutdown, bldVars, rend, logsLeft, flushesLeft, nextId>>

LMRoute(t) == route(t) /\ UNCHANGED <<rbObs, atShutdown, bldVars, rend, logsLeft, flushesLeft, nextId>>

\* flush() hands control back to the thread that called it.
LMFlushReturn(t) ==
    /\ pc[t] = "flushRet"
    /\ pc' = [pc EXCEPT ![t] = "idle"]
    /\ UNCHANGED <<rbVars, rbObs, atShutdown, bldVars, rend, poolVars, sinks, alive, inLog, logMsg, cur,
                   ri, written, lmObs>>

LMWorker(w) ==
    /\ workerLoop(w)
    /\ UNCHANGED <<rbVars, rbObs, atShutdown, bldVars, rend, lmVars, written, lmObs>>

LMRunTask(w) ==
    /\ runTask(w)
    /\ UNCHANGED <<rbVars, rbObs, atShutdown, bldVars, rend, lmVars, lmObs>>

\* std::condition_variable::wait may return without a notification.
LMSpuriousWake(w) ==
    /\ wpc[w] = "sleep"
    /\ wpc' = [wpc EXCEPT ![w] = "ready"]
    /\ UNCHANGED <<rbVars, rbObs, atShutdown, bldVars, rend, tasks, shutdown, wtask, lmVars, written, lmObs>>

LMDestroyBegin == destroyBegin /\ UNCHANGED <<rbObs, atShutdown, bldVars, rend, lmObs>>

LMDestroyEnd == destroyEnd /\ UNCHANGED <<rbObs, atShutdown, bldVars, rend, lmObs>>

\* A log() call while the behaviour's budget of calls lasts.
LMLogAny(t) == nextId <= MaxEvents /\ LMLog(t)

\* Any number of threads logging and flushing a manager of any capacity.
LMInit ==
    /\ \E bufferCapacity \in 0..MaxQueue, nSinks \in 0..MaxSinks :
            LogManagerInit(bufferCapacity, nSinks)
    /\ ObsInit
    /\ logsLeft = [t \in Threads |-> MaxEvents]
    /\ flushesLeft = MaxFlushes

LMNext ==
    \/ \E t \in Threads :
        \/ LMLogAny(t)
        \/ LMLogRetry(t)
        \/ LMFlushCall(t)
        \/ LMFlush(t)
        \/ LMRoute(t)
        \/ LMFlushReturn(t)
    \/ \E w \in Workers :
        \/ LMWorker(w)
        \/ LMRunTask(w)
        \/ LMSpuriousWake(w)
    \/ LMDestroyBegin
    \/ LMDestroyEnd

SpecLM == LMInit /\ [][LMNext]_vars

\* The threads are scheduled fairly and a sink write returns: a call that
\* has started goes on, and a worker that can step does. Nothing obliges a
\* caller to start a call.
LMFairness ==
    /\ \A t \in Threads :
        /\ WF_vars(LMLogRetry(t))
        /\ WF_vars(LMFlush(t))
        /\ WF_vars(LMRoute(t))
        /\ WF_vars(LMFlushReturn(t))
    /\ \A w \in Workers : WF_vars(LMWorker(w)) /\ WF_vars(LMRunTask(w))
    /\ WF_vars(LMDestroyEnd)

\* The same manager with each thread logging at most FairLogs messages.
FairLMInit ==
    /\ \E bufferCapacity \in 0..MaxQueue, nSinks \in 0..MaxSinks :
            LogManagerInit(bufferCapacity, nSinks)
    /\ ObsInit
    /\ logsLeft = [t \in Threads |-> FairLogs]
    /\ flushesLeft = MaxFlushes

FairSpecLM == FairLMInit /\ [][LMNext]_vars /\ LMFairness

\* Only the calling threads are scheduled fairly: a worker may stay inside a
\* sink write for ever, or never run at all.
CallerFairness ==
    \A t \in Threads :
        /\ WF_vars(LMLogRetry(t))
        /\ WF_vars(LMFlush(t))
        /\ WF_vars(LMRoute(t))
        /\ WF_vars(LMFlushReturn(t))

HungSpecLM == FairLMInit /\ [][LMNext]_vars /\ CallerFairness

\* A single thread logging capacity + 1 messages, with no explicit flush().
OverloadInit ==
    /\ \E bufferCapacity \in 0..MaxQueue, nSinks \in 0..MaxSinks :
        /\ LogManagerInit(bufferCapacity, nSinks)
        /\ logsLeft = [t \in Threads |-> IF t = 1 THEN bufferCapacity + 1 ELSE 0]
    /\ ObsInit
    /\ flushesLeft = 0

OverloadNext ==
    \/ \E t \in Threads :
        \/ LMLog(t)
        \/ LMLogRetry(t)
        \/ LMFlush(t)
        \/ LMRoute(t)
    \/ \E w \in Workers :
        \/ LMWorker(w)
        \/ LMRunTask(w)
        \/ LMSpuriousWake(w)

SpecOverload == OverloadInit /\ [][OverloadNext]_vars

\* P = NumThreads producers logging K = LogsPerProducer messages each into
\* a queue of capacity P*K or more, then one flush().
PK == NumThreads * LogsPerProducer

PKInit ==
    /\ \E bufferCapacity \in {PK, PK + 1}, nSinks \in 0..MaxSinks :
        LogManagerInit(bufferCapacity, nSinks)
    /\ ObsInit
    /\ logsLeft = [t \in Threads |-> LogsPerProducer]
    /\ flushesLeft = 1

\* flush() is called once all producers have finished.
PKFlushCall(t) ==
    /\ \A u \in Threads : logsLeft[u] = 0 /\ pc[u] = "idle"
    /\ LMFlushCall(t)

PKNext ==
    \/ \E t \in Threads :
        \/ LMLog(t)
        \/ PKFlushCall(t)
        \/ LMFlush(t)
        \/ LMRoute(t)
        \/ LMFlushReturn(t)
    \/ \E w \in Workers :
        \/ LMWorker(w)
        \/ LMRunTask(w)
        \/ LMSpuriousWake(w)

SpecPK == PKInit /\ [][PKNext]_vars

\* ------------------------------------------------- the pool used on its own
\* A ThreadPool whose tasks are sink writes, with NumThreads submitters. The
\* owner may destroy the pool at any moment; enqueue is called on it until
\* the destructor has returned.
TPInit ==
    /\ RingBufferInit(0)
    /\ ThreadPoolInit
    /\ sinks = [i \in SinkIds |-> i]
    /\ alive = "active"
    /\ pc = [t \in Threads |-> "idle"]
    /\ inLog = [t \in Threads |-> FALSE]
    /\ logMsg = [t \in Threads |-> NoValue]
    /\ cur = [t \in Threads |-> NoValue]
    /\ ri = [t \in Threads |-> 0]
    /\ written = [s \in SinkIds |-> <<>>]
    /\ ObsInit
    /\ logsLeft = [t \in Threads |-> 0]
    /\ flushesLeft = 0

\* The tasks held by workers w, w + 1, ..., in that order.
RECURSIVE HeldFrom(_)
HeldFrom(w) ==
    IF w > NumWorkers THEN <<>>
    ELSE (IF wpc[w] = "run" THEN <<wtask[w]>> ELSE <<>>) \o HeldFrom(w + 1)

RunningTasks == HeldFrom(1)

\* Thread t calls enqueue with a task writing message nextId to sink s.
TPEnqueue(t, s) ==
    /\ alive \in {"active", "flagged", "stopping"}
    /\ nextId <= MaxTasks
    /\ LET task == [sink |-> s, msg |-> nextId] IN
       \E ret \in BOOLEAN :
        /\ enqueue(task, ret)
        /\ submitted' = IF ret THEN Append(submitted, task) ELSE submitted
        /\ last' = [op |-> "enqueue", arg |-> nextId, ok |-> ret, val |-> NoValue]
    /\ nextId' = nextId + 1
    /\ UNCHANGED <<rbVars, rarg, pushed, popped, shutdown, wtask, lmVars, written,
                   logsLeft, flushesLeft, accepted, dropped, drained, flushLog,
                   inlineFlushes, attempts, callFlushes, atShutdown, bldVars, rend>>

\* The owner's thread enters ~ThreadPool() and sets the flag.
TPShutdownFlag ==
    /\ alive = "active"
    /\ shutdownFlag
    /\ alive' = "flagged"
    /\ atShutdown' = RunningTasks \o tasks
    /\ UNCHANGED <<bldVars, rend>>
    /\ UNCHANGED <<rbVars, rbObs, sinks, pc, inLog, logMsg, cur, ri, written, lmObs>>

TPShutdownNotify ==
    /\ alive = "flagged"
    /\ shutdownNotify
    /\ alive' = "stopping"
    /\ UNCHANGED <<rbVars, rbObs, sinks, pc, inLog, logMsg, cur, ri, written, lmObs,
                   atShutdown, bldVars, rend>>

TPNext ==
    \/ \E t \in Threads, s \in SinkIds : TPEnqueue(t, s)
    \/ \E w \in Workers :
        \/ LMWorker(w)
        \/ LMRunTask(w)
        \/ LMSpuriousWake(w)
    \/ TPShutdownFlag
    \/ TPShutdownNotify
    \/ LMDestroyEnd

SpecTP == TPInit /\ [][TPNext]_vars

\* The workers and the destructor's thread are scheduled fairly and every
\* task body returns.
TPFairness ==
    /\ \A w \in Workers : WF_vars(LMWorker(w)) /\ WF_vars(LMRunTask(w))
    /\ WF_vars(TPShutdownNotify)
    /\ WF_vars(LMDestroyEnd)

FairSpecTP == TPInit /\ [][TPNext]_vars /\ TPFairness

\* ------------------------------------------- a sink whose write() throws
\* ILogSink::write is not noexcept. FaultySink stands for a registered sink
\* whose write throws on every call.
FaultySink == MaxSinks + 1

\* task() throws: workerLoop has no handler around it, the exception leaves
\* the function the worker's std::thread runs and std::terminate ends the
\* process.
taskThrows(w) ==
    /\ wpc[w] = "run"
    /\ wtask[w].sink = FaultySink
    /\ alive' = "terminated"
    /\ UNCHANGED <<poolVars, sinks, pc, inLog, logMsg, cur, ri, written>>

\* A manager with the faulty sink registered, alone or next to a sound one.
FaultInit ==
    /\ \E bufferCapacity \in 0..MaxQueue : RingBufferInit(bufferCapacity)
    /\ ThreadPoolInit
    /\ sinks \in {<<FaultySink>>, <<FaultySink, 1>>, <<1, FaultySink>>}
    /\ alive = "active"
    /\ pc = [t \in Threads |-> "idle"]
    /\ inLog = [t \in Threads |-> FALSE]
    /\ logMsg = [t \in Threads |-> NoValue]
    /\ cur = [t \in Threads |-> NoValue]
    /\ ri = [t \in Threads |-> 0]
    /\ written = [s \in SinkIds |-> <<>>]
    /\ ObsInit
    /\ logsLeft = [t \in Threads |-> MaxEvents]
    /\ flushesLeft = MaxFlushes

\* Once std::terminate has run no thread of the process takes a step.
Running == alive # "terminated"

FaultLog(t) == Running /\ LMLogAny(t)

FaultLogRetry(t) == Running /\ LMLogRetry(t)

FaultFlushCall(t) == Running /\ LMFlushCall(t)

FaultFlush(t) == Running /\ LMFlush(t)

FaultRoute(t) == Running /\ LMRoute(t)

FaultFlushReturn(t) == Running /\ LMFlushReturn(t)

FaultWorker(w) == Running /\ LMWorker(w)

FaultRunTask(w) == Running /\ wtask[w].sink # FaultySink /\ LMRunTask(w)

FaultThrow(w) ==
    /\ Running
    /\ taskThrows(w)
    /\ UNCHANGED <<rbVars, rbObs, lmObs, atShutdown, bldVars, rend>>

FaultSpuriousWake(w) == Running /\ LMSpuriousWake(w)

FaultNext ==
    \/ \E t \in Threads :
        \/ FaultLog(t)
        \/ FaultLogRetry(t)
        \/ FaultFlushCall(t)
        \/ FaultFlush(t)
        \/ FaultRoute(t)
        \/ FaultFlushReturn(t)
    \/ \E w \in Workers :
        \/ FaultWorker(w)
        \/ FaultRunTask(w)
        \/ FaultThrow(w)
        \/ FaultSpuriousWake(w)

SpecFault == FaultInit /\ [][FaultNext]_vars

\* ------------------------------------------------------- claims C1 .. C4
\* C1: FIFO. The values returned by the successful pops are, in order, the
\* first values stored by the successful pushes, and what is still buffered
\* (read from tail on, wrapping at the end of the array) is the rest of
\* them in push order.
C1_Fifo == pushed = popped \o Contents

\* C1 witness: more values were pushed than the array has slots (head and
\* tail have wrapped), all were popped again, and two different values came
\* back in sequence.
C1_WrappedAndDrained ==
    /\ maxCapacity >= 2
    /\ Len(pushed) > maxCapacity
    /\ Len(popped) = Len(pushed)
    /\ \E i \in 1..(Len(popped) - 1) : popped[i] # popped[i + 1]

\* C2: every tryPush step returns false exactly when the queue was full at
\* the call; returning false it leaves slots, head, tail and elemCount as
\* they were; returning true it fills exactly the (empty) slot at head,
\* advances head by one modulo the capacity and adds one to elemCount.
C2_TryPush ==
    [][\A t \in Threads, v \in Values :
        RBTryPush(t, v) =>
            /\ (last'.ok = FALSE) <=> (elemCount = maxCapacity)
            /\ last'.ok = FALSE =>
                    UNCHANGED <<buffer, head, tail, elemCount, maxCapacity>>
            /\ last'.ok = TRUE =>
                    /\ buffer[head] = NoValue
                    /\ \A i \in DOMAIN buffer :
                            buffer'[i] = IF i = head THEN v ELSE buffer[i]
                    /\ head' = (head + 1) % maxCapacity
                    /\ elemCount' = elemCount + 1
                    /\ UNCHANGED <<tail, maxCapacity>>]_vars

\* C2 witness: a tryPush has just been refused on a full queue that earlier
\* pushes filled.
C2_RefusedOnFull ==
    /\ last.op = "tryPush"
    /\ last.ok = FALSE
    /\ maxCapacity >= 2
    /\ elemCount = maxCapacity
    /\ Len(pushed) >= maxCapacity

\* C3: every tryPop step returns nullopt exactly when the queue was empty
\* at the call; returning nullopt it leaves slots, head, tail and elemCount
\* as they were; returning a value it returns the one at tail, clears that
\* slot only, advances tail by one modulo the capacity and takes one from
\* elemCount.
C3_TryPop ==
    [][\A t \in Threads :
        RBTryPop(t) =>
            /\ (last'.val = NoValue) <=> (elemCount = 0)
            /\ last'.val = NoValue =>
                    UNCHANGED <<buffer, head, tail, elemCount, maxCapacity>>
            /\ last'.val # NoValue =>
                    /\ last'.val = buffer[tail]
                    /\ \A i \in DOMAIN buffer :
                            buffer'[i] = IF i = tail THEN NoValue ELSE buffer[i]
                    /\ tail' = (tail + 1) % maxCapacity
                    /\ elemCount' = elemCount - 1
                    /\ UNCHANGED <<head, maxCapacity>>]_vars

\* C3 witness: a tryPop has just returned nullopt on a queue that was used
\* and drained before.
C3_EmptyAfterUse ==
    /\ last.op = "tryPop"
    /\ last.val = NoValue
    /\ elemCount = 0
    /\ Len(popped) >= 2

\* C4: in every reachable state 0 <= elemCount <= capacity, head and tail
\* are below the capacity, isEmpty() is elemCount == 0 and isFull() is
\* elemCount == capacity.
C4_Invariant ==
    /\ 0 <= elemCount /\ elemCount <= maxCapacity
    /\ head < maxCapacity
    /\ tail < maxCapacity
    /\ isEmpty_unlocked <=> (elemCount = 0)
    /\ isFull_unlocked <=> (elemCount = maxCapacity)

\* What remains of C4 for the queues the specification allows (capacity of
\* at least 1): not part of the claim's settlement, kept as a regression.
C4_InvariantPositiveCapacity == maxCapacity >= 1 => C4_Invariant

\* ------------------------------------------------------ claims C5 .. C10
\* Number of write calls sink s has received with message e.
Count(s, e) == Cardinality({i \in DOMAIN written[s] : written[s][i] = e})

WasDrained(e) == \E i \in DOMAIN drained : drained[i] = e

Registered(s) == s \in DOMAIN sinks

Events == 1..MaxEvents

\* The pool has nothing left to run.
PoolIdle == tasks = <<>> /\ \A w \in Workers : wpc[w] # "run"

\* C5 as stated: at the step by which flush() hands control back to its
\* caller the queue is empty, and every registered sink eventually has
\* exactly one write per message this flush() drained.
C5_AsStated ==
    /\ [][\A t \in Threads : LMFlushReturn(t) => elemCount = 0]_vars
    /\ \A t \in Threads, e \in Events, s \in SinkIds :
        (pc[t] = "flushRet" /\ e \in flushLog[t] /\ Registered(s))
            ~> (Count(s, e) = 1)

\* C5 as amended: the queue is empty at the last step flush() itself takes
\* (the tryPop that returns nullopt; a message another thread logs after
\* that step may be buffered when the caller regains control); no sink ever
\* gets a message twice; and once a flush() is over, explicit or inline,
\* every registered sink eventually has exactly one write for each message
\* that flush() drained.
C5_FlushFanOut ==
    /\ [][\A t \in Threads :
            (pc[t] = "flush" /\ pc'[t] \in {"flushRet", "retry"})
                => (elemCount = 0 /\ elemCount' = 0)]_vars
    /\ [](\A s \in SinkIds, e \in Events : Count(s, e) <= 1)
    /\ \A t \in Threads, e \in Events, s \in SinkIds :
        (pc[t] \in {"flushRet", "retry"} /\ e \in flushLog[t] /\ Registered(s))
            ~> (Count(s, e) = 1)

\* C5 witness: an explicit flush() that drained a message has returned and
\* both of two registered sinks have that message.
C5_FlushedAndWritten ==
    \E t \in Threads, e \in Events :
        /\ pc[t] = "flushRet"
        /\ e \in flushLog[t]
        /\ Len(sinks) = 2
        /\ Count(1, e) = 1 /\ Count(2, e) = 1

\* C6: P producers log K messages each into a queue of capacity >= P*K and
\* one flush() follows. No log() flushes or drops; no sink ever gets a
\* message twice or a message nobody logged; and once the flush() has
\* returned and the pool has run its tasks, every registered sink has
\* exactly P*K writes, one for each message.
PKSettled ==
    /\ flushesLeft = 0
    /\ \A t \in Threads : pc[t] = "idle"
    /\ PoolIdle

C6_ProducersThenFlush ==
    /\ inlineFlushes = 0 /\ dropped = {}
    /\ \A s \in SinkIds :
        /\ ~Registered(s) => written[s] = <<>>
        /\ \A e \in 1..PK : Count(s, e) <= 1
        /\ \A i \in DOMAIN written[s] : written[s][i] \in accepted
    /\ PKSettled =>
        \A s \in DOMAIN sinks :
            /\ Len(written[s]) = PK
            /\ \A e \in 1..PK : Count(s, e) = 1

\* C6 witness: the scenario has run to its end with two sinks.
C6_AllWritten ==
    /\ PKSettled
    /\ Len(sinks) = 2
    /\ Len(written[1]) = PK /\ Len(written[2]) = PK
    /\ \A t \in Threads : attempts[t] = 1

\* C7: one thread logs capacity + 1 messages without an explicit flush().
\* The queue never holds more than capacity messages, log() flushes at most
\* once, and when the last log() has returned exactly one inline flush()
\* has run and the queue holds at most one message: the last one logged
\* (none when the capacity is 0).
OverloadDone == logsLeft[1] = 0 /\ pc[1] = "idle"

C7_Overload ==
    /\ elemCount <= maxCapacity
    /\ inlineFlushes <= 1
    /\ OverloadDone =>
        /\ inlineFlushes = 1
        /\ elemCount <= 1
        /\ Contents = IF maxCapacity = 0 THEN <<>> ELSE <<maxCapacity + 1>>

\* C7 witness: capacity 2, three messages logged, the third is buffered.
C7_ThirdBuffered ==
    /\ OverloadDone
    /\ maxCapacity = 2
    /\ inlineFlushes = 1
    /\ Contents = <<3>>
    /\ Len(drained) = 2

\* C8: a log() call makes one tryPush; only if that finds the queue full it
\* calls flush() once, which runs until a tryPop finds the queue empty, and
\* then makes exactly one more tryPush; a message whose second tryPush
\* fails is dropped (it is neither buffered nor ever written) and the call
\* returns like any other. No call makes a third tryPush or a second flush().
LogReturned(t) == pc[t] = "idle" /\ attempts[t] > 0

C8_LogPolicy ==
    /\ [](\A t \in Threads :
            /\ attempts[t] <= 2 /\ callFlushes[t] <= 1
            /\ inLog[t] =>
                /\ pc[t] \in {"flush", "route", "retry"}
                /\ attempts[t] = 1 /\ callFlushes[t] = 1
            /\ pc[t] = "retry" => inLog[t]
            /\ LogReturned(t) =>
                \/ /\ attempts[t] = 1 /\ callFlushes[t] = 0
                   /\ logMsg[t] \in accepted
                \/ /\ attempts[t] = 2 /\ callFlushes[t] = 1
                   /\ logMsg[t] \in accepted \cup dropped)
    /\ [](accepted \cap dropped = {})
    /\ [](\A e \in dropped :
            /\ \A i \in DOMAIN Contents : Contents[i] # e
            /\ \A s \in SinkIds : Count(s, e) = 0)
    /\ [][\A t \in Threads :
            /\ LMLogAny(t) =>
                ((pc'[t] = "flush") <=> (elemCount = maxCapacity))
            /\ (pc[t] = "flush" /\ pc'[t] = "retry") => elemCount = 0
            /\ LMLogRetry(t) =>
                ((logMsg[t] \in dropped') <=> (elemCount = maxCapacity))]_vars

\* C8 witness: a queue with room for messages was refilled by the other
\* producer during a log()'s inline flush, and that log() dropped its
\* message after the failed retry.
C8_DroppedAfterRefill ==
    \E t \in Threads :
        /\ maxCapacity >= 1
        /\ LogReturned(t)
        /\ attempts[t] = 2
        /\ logMsg[t] \in dropped
        /\ Len(drained) >= 1

\* C9 as stated, in the form a finite run decides: when the manager is gone
\* every message log() buffered has been written once to every registered
\* sink.
C9_AsStated ==
    alive = "destroyed" =>
        \A e \in accepted, s \in DOMAIN sinks : Count(s, e) = 1

\* C9 as amended: a message reaches the sinks only through a flush(). Every
\* buffered message that a flush() has drained eventually is written to
\* every registered sink, and no message is ever written twice, or written
\* without having been buffered and drained; a message still in the queue
\* when the manager is destroyed is written to no sink.
C9_DrainedReachSinks ==
    /\ [](\A s \in SinkIds, e \in Events :
            /\ Count(s, e) <= 1
            /\ Count(s, e) = 1 => (e \in accepted /\ WasDrained(e) /\ Registered(s)))
    /\ \A e \in Events, s \in SinkIds :
        (WasDrained(e) /\ Registered(s)) ~> (Count(s, e) = 1)
    /\ [](alive = "destroyed" =>
            \A e \in accepted : ~WasDrained(e) =>
                /\ \E i \in DOMAIN Contents : Contents[i] = e
                /\ \A s \in SinkIds : Count(s, e) = 0)

\* C9 witness: the manager has been destroyed with one buffered message
\* written to both sinks and another one still in the queue.
C9_DestroyedWithBuffered ==
    /\ alive = "destroyed"
    /\ Len(sinks) = 2
    /\ \E e \in accepted : Count(1, e) = 1 /\ Count(2, e) = 1
    /\ \E e \in accepted : ~WasDrained(e)

\* C10 as stated: capacity 2, sinks [A, B], log(e1); log(e2); log(e3). When
\* the calls have returned and the pool has run its tasks, A and B have
\* each received e1 and then e2, and the queue holds exactly e3.
Example == maxCapacity = 2 /\ Len(sinks) = 2

C11_Enqueue ==
    /\ [][\A t \in Threads, s \in SinkIds :
            TPEnqueue(t, s) =>
                /\ (last'.ok = FALSE) <=> shutdown
                /\ last'.ok = FALSE => tasks' = tasks
                /\ last'.ok = TRUE =>
                        tasks' = Append(tasks, [sink |-> s, msg |-> nextId])]_vars
    /\ []((alive \in {"active", "flagged", "stopping"} /\ nextId <= MaxTasks) =>
            \A t \in Threads, s \in SinkIds : ENABLED TPEnqueue(t, s))

\* C11 witness: with both workers busy and a task queued behind them, the
\* third task was accepted; shutdown began and the next enqueue was refused.
C11_RefusedAfterAccepted ==
    /\ last.op = "enqueue" /\ last.ok = FALSE
    /\ shutdown
    /\ Len(submitted) = 3
    /\ \A w \in Workers : wpc[w] = "run"
    /\ tasks # <<>>

\* C12: a worker exits only with the shutdown flag set and the task queue
\* empty; a worker that executes a task leaves it only by completing its
\* write (shutdown does not interrupt it); and when the destructor has
\* returned the queue is empty, no worker holds a task, and every task
\* enqueue accepted has been executed exactly once.
Executed(task) == Count(task.sink, task.msg) = 1

C12_DrainBeforeExit ==
    /\ [](\A w \in Workers : wpc[w] = "exited" => (shutdown /\ tasks = <<>>))
    /\ [][\A w \in Workers :
            wpc[w] = "run" =>
                \/ wpc'[w] = "run" /\ wtask'[w] = wtask[w]
                \/ /\ wpc'[w] = "ready"
                   /\ written'[wtask[w].sink] =
                            Append(written[wtask[w].sink], wtask[w].msg)]_vars
    /\ [](alive = "destroyed" =>
            /\ tasks = <<>>
            /\ \A w \in Workers : wpc[w] = "exited" /\ wtask[w] = NoTask
            /\ \A i \in DOMAIN submitted : Executed(submitted[i]))

\* C12 witness: when the flag was set both workers were executing a task
\* and a third task was queued; the destructor has returned and all three
\* have been executed.
C12_QueuedAtShutdownExecuted ==
    /\ alive = "destroyed"
    /\ Len(atShutdown) = 3
    /\ \A i \in DOMAIN atShutdown : Executed(atShutdown[i])

\* C13: with the workers scheduled and every task body returning, a
\* destructor that has set the flag eventually returns, in every
\* interleaving with the workers; once it has notified, no worker is inside
\* cv.wait any more (none missed the notification); and when it returns all
\* workers have exited.
C13_ShutdownTerminates ==
    /\ (alive = "flagged") ~> (alive = "destroyed")
    /\ [](alive \in {"stopping", "destroyed"} =>
            \A w \in Workers : wpc[w] # "sleep")
    /\ [](alive = "destroyed" => (shutdown /\ AllJoined))

\* C13 witness: the pool had executed tasks and was idle when the flag was
\* set, and the destructor has returned.
C13_IdlePoolDestroyed ==
    /\ alive = "destroyed"
    /\ AllJoined
    /\ Len(submitted) >= 2
    /\ atShutdown = <<>>

\* C14: a sink write that throws is ignored. The process goes on: no worker
\* is lost (every worker is still in workerLoop, waiting or executing), and
\* the tasks of the sound sink are not affected, so the sound sink never
\* misses a message whose faulty write has failed.
C14_FailureIgnored ==
    /\ alive # "terminated"
    /\ \A w \in Workers : wpc[w] \in {"ready", "sleep", "run"}

\* C15: log() and flush() never wait for a sink write. Every step of a
\* running call (tryPop, the submission of a task, the retried tryPush) can
\* be taken in every state, whatever the workers are doing; with the caller
\* scheduled, every call that has started returns even if no worker ever
\* completes a task; and when flush() returns, one task per registered sink
\* has been submitted for each message it drained, executed or not.
TaskSubmitted(s, e) ==
    \E i \in DOMAIN submitted : submitted[i] = [sink |-> s, msg |-> e]

C15_CallsNeverWait ==
    /\ [](\A t \in Threads :
            /\ pc[t] = "flush" => ENABLED LMFlush(t)
            /\ pc[t] = "route" => ENABLED LMRoute(t)
            /\ pc[t] = "retry" => ENABLED LMLogRetry(t)
            /\ pc[t] = "flushRet" => ENABLED LMFlushReturn(t))
    /\ \A t \in Threads :
            (pc[t] \in {"flush", "route", "retry", "flushRet"}) ~> (pc[t] = "idle")
    /\ [](\A t \in Threads :
            pc[t] \in {"flushRet", "retry"} =>
                \A e \in flushLog[t], i \in DOMAIN sinks : TaskSubmitted(sinks[i], e))

\* C15 witness: flush() has returned after submitting the tasks of the
\* messages it drained while both workers are inside a write that has not
\* returned, tasks are queued behind them and no sink has received anything.
C15_ReturnedWithHungWorkers ==
    \E t \in Threads :
        /\ pc[t] = "flushRet"
        /\ flushLog[t] # {}
        /\ \A w \in Workers : wpc[w] = "run"
        /\ tasks # <<>>
        /\ \A s \in SinkIds : written[s] = <<>>

\* C16: within one flush() call the messages are dequeued oldest first, and
\* for each of them one task per registered sink is submitted, in
\* registration order, before the next message is dequeued: the tasks the
\* call has submitted are always the first ones of the fan-out of the
\* messages it has drained, all of them whenever the call is between two
\* messages or over. A task writes its own message to its own sink only.
FanOut(e) == [i \in 1..Len(sinks) |-> [sink |-> sinks[i], msg |-> e]]

RECURSIVE FanOutAll(_)
FanOutAll(d) == IF d = <<>> THEN <<>> ELSE FanOut(Head(d)) \o FanOutAll(Tail(d))

\* The messages drained, and the tasks submitted, by the current or last
\* flush() of thread t, in order.
DrainedBy(t) == SelectSeq(drained, LAMBDA e : e \in flushLog[t])

SubmittedBy(t) == SelectSeq(submitted, LAMBDA k : k.msg \in flushLog[t])

C16_FanOutOrder ==
    /\ [](\A t \in Threads :
            LET due == FanOutAll(DrainedBy(t))
                done == SubmittedBy(t) IN
            /\ Len(done) <= Len(due)
            /\ done = SubSeq(due, 1, Len(done))
            /\ pc[t] # "route" => done = due
            /\ pc[t] = "route" =>
                    Len(done) = Len(due) - Len(sinks) + (ri[t] - 1))
    /\ [][\A t \in Threads :
            (LMFlush(t) /\ drained' # drained) =>
                drained' = Append(drained, Contents[1])]_vars
    /\ [][\A w \in Workers :
            LMRunTask(w) =>
                written' = [written EXCEPT ![wtask[w].sink] = Append(@, wtask[w].msg)]]_vars

\* C16 witness: one flush() drained two messages with two sinks registered
\* and has submitted the four tasks.
C16_TwoEventsFannedOut ==
    \E t \in Threads :
        /\ pc[t] = "flushRet"
        /\ Len(sinks) = 2
        /\ Len(DrainedBy(t)) = 2
        /\ Len(SubmittedBy(t)) = 4

\* C17: the task queue is always the tail end of the sequence of accepted
\* tasks, and a worker that removes a task removes the oldest accepted task
\* not yet started: tasks are started in the order enqueue accepted them.
\* (Two workers may then execute side by side and finish in either order.)
StartedCount == Len(submitted) - Len(tasks)

C17_PoolFifo ==
    /\ [](/\ Len(tasks) <= Len(submitted)
          /\ tasks = SubSeq(submitted, StartedCount + 1, Len(submitted)))
    /\ [][\A w \in Workers :
            (LMWorker(w) /\ wpc'[w] = "run") =>
                /\ wtask'[w] = submitted[StartedCount + 1]
                /\ tasks' = Tail(tasks)]_vars

\* C17 witness: two tasks for the same sink were accepted and started in
\* that order, ran side by side, and the second finished first.
C17_StartedInOrderFinishedReversed ==
    /\ Len(submitted) >= 2
    /\ submitted[1].sink = submitted[2].sink
    /\ written[submitted[1].sink] = <<submitted[2].msg, submitted[1].msg>>

\* C18: in every reachable state each worker is waiting for the task queue
\* holding no task, executing exactly one task, or exited holding none; a
\* task being executed is held by one worker only, is no longer queued and
\* has not been executed before; and the shutdown flag, once true, is never
\* false again.
C18_WorkerStates ==
    /\ [](\A w \in Workers :
            /\ wpc[w] \in {"ready", "sleep", "run", "exited"}
            /\ wpc[w] = "run" <=> wtask[w] # NoTask
            /\ wpc[w] = "run" =>
                /\ \A v \in Workers \ {w} : wtask[v] # wtask[w]
                /\ \A i \in DOMAIN tasks : tasks[i] # wtask[w]
                /\ Count(wtask[w].sink, wtask[w].msg) = 0)
    /\ [][shutdown => shutdown']_vars

\* C18 witness: after the flag was set one worker is still executing the
\* task it held and the other one has exited.
C18_RunningAndExited ==
    /\ shutdown
    /\ \E w \in Workers : wpc[w] = "run"
    /\ \E w \in Workers : wpc[w] = "exited"
    /\ Len(submitted) >= 2

\* C19: with every statement of push, tryPush, pop and tryPop a step of its
\* own, at most one thread is ever inside a body; a push stores into an
\* empty slot and a pop takes from a filled one; and whenever no thread is
\* inside a body the queue holds exactly the values pushed and not yet
\* popped, in push order, with elemCount = successful pushes - successful
\* pops: nothing was overwritten, lost or returned twice.
InBody == {t \in Threads : rpc[t] \in InPushBody \cup InPopBody}

C19_Atomic ==
    /\ Cardinality(InBody) <= 1
    /\ 0 <= elemCount /\ elemCount <= maxCapacity
    /\ \A t \in Threads :
        /\ rpc[t] = "store" => buffer[head] = NoValue
        /\ rpc[t] = "take" => buffer[tail] # NoValue
    /\ InBody = {} =>
        /\ elemCount = Len(pushed) - Len(popped)
        /\ pushed = popped \o Contents

\* C19 witness: a thread is in the middle of a pop (its slot not yet
\* cleared) while a producer that an earlier pop woke is waiting to take
\* the mutex again.
C19_ContendedMidPop ==
    \E t, u \in Threads :
        /\ rpc[t] = "reset"
        /\ rpc[u] = "pushWoken"
        /\ Len(pushed) >= 2
        /\ Len(popped) >= 1

\* C20: no lost wake-up. Every successful dequeue takes one suspended
\* producer (if any) out of its wait and every successful enqueue one
\* suspended consumer; while a producer is suspended, at least as many
\* producers have been woken and not yet run as the queue has free slots
\* (likewise consumers and buffered elements); so a thread suspended while
\* the queue has room (or data) does not stay so: it completes its call, or
\* other threads use the room (or data) up.
Suspended(pos) == {t \in Threads : rpc[t] = pos}

C20_NoLostWakeup ==
    /\ [](Suspended("pushWait") # {} =>
            maxCapacity - elemCount <= Cardinality(Suspended("pushWoken")))
    /\ [](Suspended("popWait") # {} =>
            elemCount <= Cardinality(Suspended("popWoken")))
    /\ [][/\ (popped' # popped /\ Suspended("pushWait") # {}) =>
                \E t \in Suspended("pushWait") : rpc'[t] = "pushWoken"
          /\ (pushed' # pushed /\ Suspended("popWait") # {}) =>
                \E t \in Suspended("popWait") : rpc'[t] = "popWoken"]_vars
    /\ \A t \in Threads :
        /\ (rpc[t] = "pushWait" /\ ~isFull_unlocked)
                ~> (rpc[t] = "idle" \/ isFull_unlocked)
        /\ (rpc[t] = "popWait" /\ ~isEmpty_unlocked)
                ~> (rpc[t] = "idle" \/ isEmpty_unlocked)
        /\ (rpc[t] \in {"pushWoken", "popWoken"})
                ~> (rpc[t] \in {"idle", "pushWait", "popWait"})

\* C20 witness: a tryPop has just succeeded on a queue a producer was
\* suspended on; the producer is woken and the queue has room for it.
C20_ProducerWokenByPop ==
    \E t \in Threads :
        /\ rpc[t] = "pushWoken"
        /\ last.op = "tryPop" /\ last.ok
        /\ elemCount = maxCapacity - 1
        /\ maxCapacity >= 2

\* ------------------------------------------------------------------- C21
\* C21: a bounded queue, and therefore a LogManager, cannot be constructed
\* with capacity 0: every constructed queue has capacity >= 1.  The
\* constructors take any std::size_t (RingBuffer.hpp:25-28,
\* LogManager.hpp:23-29), so the managers of LMInit include the one built
\* with bufferCapacity = 0 and the statement fails in its initial state.
C21_CapacityAtLeastOne == alive = "active" => maxCapacity >= 1

\* ------------------------------------------------------ LogManagerBuilder
\* Calls made on one builder per behaviour, and the largest size passed to
\* withBufferSize / withthreadPoolSize.
MaxCalls == 4
MaxSize == 2

\* enum class BuilderError (LogManagerBuilder.hpp:11-19)
BuilderError ==
    {"NO_SINKS_CONFIGURED", "INVALID_BUFFER_SIZE", "INVALID_THREADPOOL_SIZE",
     "EMPTY_FILEPATH", "NULL_SINK", "SINK_CREATION_FAILED"}

\* enum class LogSinkType (LogTypes.hpp:3-7)
LogSinkType == {"CONSOLE", "FILE", "SOCKET"}

\* The file paths and factory configurations passed by the caller.
Paths == {"", "app.log"}

\* The sink object a call creates (std::make_shared / std::make_unique), or
\* the one the caller hands to withSink: every call gets a sink of its own,
\* named by the position of the call. NoValue is the null pointer.
NewSink == Len(calls) + 1

\* LogSinkFactory::create(type, config): a sink, or a SinkCreationError.
create(type, config) ==
    CASE type = "CONSOLE" -> [ok |-> TRUE, err |-> "none"]
      [] type = "FILE" ->
            IF config = ""
            THEN [ok |-> FALSE, err |-> "MISSING_FILEPATH"]
            ELSE [ok |-> TRUE, err |-> "none"]
      [] OTHER -> [ok |-> FALSE, err |-> "UNKNOWN_SINK_TYPE"]

withConsoleSink ==
    /\ builderSinks' = Append(builderSinks, NewSink)
    /\ UNCHANGED <<bufferSize, threadPoolSize, errors>>

withFileSink(filepath) ==
    /\ IF filepath = ""
       THEN errors' = Append(errors, "EMPTY_FILEPATH") /\ UNCHANGED builderSinks
       ELSE builderSinks' = Append(builderSinks, NewSink) /\ UNCHANGED errors
    /\ UNCHANGED <<bufferSize, threadPoolSize>>

\* withSink(std::shared_ptr<ILogSink> sink)
withSink(sink) ==
    /\ IF sink = NoValue
       THEN errors' = Append(errors, "NULL_SINK") /\ UNCHANGED builderSinks
       ELSE builderSinks' = Append(builderSinks, sink) /\ UNCHANGED errors
    /\ UNCHANGED <<bufferSize, threadPoolSize>>

\* withSink(LogSinkType type, const std::string &config)
withSinkOfType(type, config) ==
    /\ IF create(type, config).ok
       THEN builderSinks' = Append(builderSinks, NewSink) /\ UNCHANGED errors
       ELSE /\ errors' = Append(errors, "SINK_CREATION_FAILED")
            /\ UNCHANGED builderSinks
    /\ UNCHANGED <<bufferSize, threadPoolSize>>

withBufferSize(size) ==
    /\ IF size = 0
       THEN errors' = Append(errors, "INVALID_BUFFER_SIZE") /\ UNCHANGED bufferSize
       ELSE bufferSize' = size /\ UNCHANGED errors
    /\ UNCHANGED <<builderSinks, threadPoolSize>>

withthreadPoolSize(size) ==
    /\ IF size = 0
       THEN /\ errors' = Append(errors, "INVALID_THREADPOOL_SIZE")
            /\ UNCHANGED threadPoolSize
       ELSE threadPoolSize' = size /\ UNCHANGED errors
    /\ UNCHANGED <<builderSinks, bufferSize>>

\* The variables of a LogManager and of the RingBuffer and ThreadPool it owns.
managerVars == <<rbVars, poolVars, sinks, alive>>

\* std::make_unique<LogManager>(bufferCapacity, numThreads): an empty queue
\* of that capacity, a pool of numThreads workers, no sink.
LogManagerNew(bufferCapacity, numThreads) ==
    /\ buffer' = [i \in 0..(bufferCapacity - 1) |-> NoValue]
    /\ head' = 0 /\ tail' = 0 /\ elemCount' = 0
    /\ maxCapacity' = bufferCapacity
    /\ rpc' = [t \in Threads |-> "idle"]
    /\ tasks' = <<>>
    /\ shutdown' = FALSE
    /\ wpc' = [w \in 1..numThreads |-> "ready"]
    /\ wtask' = [w \in 1..numThreads |-> NoTask]
    /\ alive' = "active"

\* A tryBuild() that reports the error recorded last (errors.back()).
tryBuild_lastError(ret) ==
    /\ IF errors # <<>>
       THEN /\ ret = [ok |-> FALSE, err |-> errors[Len(errors)]]
            /\ UNCHANGED <<managerVars, builderSinks>>
       ELSE IF builderSinks = <<>>
            THEN /\ ret = [ok |-> FALSE, err |-> "NO_SINKS_CONFIGURED"]
                 /\ UNCHANGED <<managerVars, builderSinks>>
            ELSE /\ ret = [ok |-> TRUE, err |-> "none"]
                 /\ LogManagerNew(bufferSize, threadPoolSize)
                 /\ sinks' = builderSinks
                 /\ builderSinks' = [i \in DOMAIN builderSinks |-> NoValue]
    /\ UNCHANGED <<bufferSize, threadPoolSize, errors>>

\* tryBuild(): the first recorded error, else NO_SINKS_CONFIGURED when the
\* sinks vector is empty, else a new manager to which every element of the
\* sinks vector is moved with addSink, in order. A moved-from
\* std::shared_ptr is null; the vector keeps its length.
tryBuild(ret) ==
    /\ IF errors # <<>>
       THEN /\ ret = [ok |-> FALSE, err |-> Head(errors)]
            /\ UNCHANGED <<managerVars, builderSinks>>
       ELSE IF builderSinks = <<>>
            THEN /\ ret = [ok |-> FALSE, err |-> "NO_SINKS_CONFIGURED"]
                 /\ UNCHANGED <<managerVars, builderSinks>>
            ELSE /\ ret = [ok |-> TRUE, err |-> "none"]
                 /\ LogManagerNew(bufferSize, threadPoolSize)
                 /\ sinks' = builderSinks
                 /\ builderSinks' = [i \in DOMAIN builderSinks |-> NoValue]
    /\ UNCHANGED <<bufferSize, threadPoolSize, errors>>

\* build(): tryBuild(), with std::runtime_error thrown in place of an error.
build(ret) ==
    \E r \in [ok : BOOLEAN, err : BuilderError \cup {"none"}] :
        /\ tryBuild(r)
        /\ ret = IF r.ok THEN r ELSE [ok |-> FALSE, err |-> "runtime_error"]

\* LogManagerBuilder::reset(): sinks.clear(); bufferSize = 100;
\* errors.clear(). threadPoolSize is not assigned.
builderReset ==
    /\ builderSinks' = <<>>
    /\ bufferSize' = DefaultBufferSize
    /\ errors' = <<>>
    /\ UNCHANGED threadPoolSize

\* ------------------------------------------------ the builder's caller
\* One thread makes up to MaxCalls calls on one builder, in any order. The
\* manager a successful tryBuild() returns is the one of the manager's
\* variables; the caller does not use it.
Call(op, n, s, type) == [op |-> op, n |-> n, s |-> s, type |-> type]

Called(c) ==
    /\ Len(calls) < MaxCalls
    /\ calls' = Append(calls, c)
    /\ UNCHANGED <<rbObs, pc, inLog, logMsg, cur, ri, written, lmObs, atShutdown,
                   rend>>

Configured(c) == Called(c) /\ UNCHANGED <<managerVars, result>>

BWithConsoleSink ==
    withConsoleSink /\ Configured(Call("withConsoleSink", NewSink, "", ""))

BWithFileSink(filepath) ==
    withFileSink(filepath) /\ Configured(Call("withFileSink", NewSink, filepath, ""))

BWithSink(sink) == withSink(sink) /\ Configured(Call("withSink", sink, "", ""))

BWithSinkOfType(type, config) ==
    /\ withSinkOfType(type, config)
    /\ Configured(Call("withSinkOfType", NewSink, config, type))

BWithBufferSize(size) ==
    withBufferSize(size) /\ Configured(Call("withBufferSize", size, "", ""))

BWithThreadPoolSize(size) ==
    withthreadPoolSize(size) /\ Configured(Call("withthreadPoolSize", size, "", ""))

BTryBuild ==
    /\ \E ret \in [ok : BOOLEAN, err : BuilderError \cup {"none"}] :
        tryBuild(ret) /\ result' = ret
    /\ Called(Call("tryBuild", 0, "", ""))

BBuild ==
    /\ \E ret \in [ok : BOOLEAN, err : {"none", "runtime_error"}] :
        build(ret) /\ result' = ret
    /\ Called(Call("build", 0, "", ""))

BReset == builderReset /\ Configured(Call("reset", 0, "", ""))

BuilderInit ==
    /\ RingBufferInit(0)
    /\ rarg = [t \in Threads |-> NoValue]
    /\ pushed = <<>>
    /\ popped = <<>>
    /\ last = [op |-> "none", arg |-> NoValue, ok |-> FALSE, val |-> NoValue]
    /\ NoManager

BuilderNext ==
    \/ BWithConsoleSink
    \/ \E filepath \in Paths : BWithFileSink(filepath)
    \/ \E sink \in {NoValue, NewSink} : BWithSink(sink)
    \/ \E type \in LogSinkType, config \in Paths : BWithSinkOfType(type, config)
    \/ \E size \in 0..MaxSize : BWithBufferSize(size)
    \/ \E size \in 0..MaxSize : BWithThreadPoolSize(size)
    \/ BTryBuild
    \/ BBuild
    \/ BReset

SpecBuilder == BuilderInit /\ [][BuilderNext]_vars

\* ------------------------------------------------------------------- C22
\* The configuration a tryBuild() is called on: the with* calls made since
\* the builder was constructed or last reset.
RECURSIVE LastReset(_)
LastReset(i) ==
    IF i = 0 THEN 0
    ELSE IF calls[i].op = "reset" THEN i ELSE LastReset(i - 1)

Configuration ==
    SelectSeq(SubSeq(calls, LastReset(Len(calls)) + 1, Len(calls)),
              LAMBDA c : c.op \notin {"tryBuild", "build"})

\* The violation a with* call makes, "none" for a valid call.
Violation(c) ==
    CASE c.op = "withBufferSize" /\ c.n = 0 -> "INVALID_BUFFER_SIZE"
      [] c.op = "withthreadPoolSize" /\ c.n = 0 -> "INVALID_THREADPOOL_SIZE"
      [] c.op = "withFileSink" /\ c.s = "" -> "EMPTY_FILEPATH"
      [] c.op = "withSink" /\ c.n = NoValue -> "NULL_SINK"
      [] c.op = "withSinkOfType" /\ (c.type = "SOCKET" \/ (c.type = "FILE" /\ c.s = ""))
            -> "SINK_CREATION_FAILED"
      [] OTHER -> "none"

Violations ==
    {Violation(Configuration[i]) : i \in DOMAIN Configuration} \ {"none"}

SinkCalls == {"withConsoleSink", "withFileSink", "withSink", "withSinkOfType"}

RECURSIVE SinksOf(_)
SinksOf(cs) ==
    IF cs = <<>> THEN <<>>
    ELSE (IF Head(cs).op \in SinkCalls /\ Violation(Head(cs)) = "none"
          THEN <<Head(cs).n>> ELSE <<>>) \o SinksOf(Tail(cs))

\* The sinks the configuration names, in configuration order.
ConfiguredSinks == SinksOf(Configuration)

\* C22: tryBuild returns a typed BuilderError and constructs no manager
\* whenever the configuration is invalid: the error is INVALID_BUFFER_SIZE
\* for a buffer size 0, INVALID_THREADPOOL_SIZE for a worker count 0,
\* EMPTY_FILEPATH for an empty file path, NULL_SINK for a null sink,
\* SINK_CREATION_FAILED for a failed factory creation and
\* NO_SINKS_CONFIGURED for an empty sink list; it returns a manager only when
\* no violation was recorded and at least one sink is configured, and that
\* manager has the configured sinks in configuration order.
C22_TryBuild ==
    [][BTryBuild =>
        /\ result'.ok \/ result'.err \in BuilderError
        /\ Violations # {} =>
            /\ ~result'.ok
            /\ result'.err \in Violations
            /\ UNCHANGED managerVars
        /\ \A e \in BuilderError : Violations = {e} => result'.err = e
        /\ (Violations = {} /\ ConfiguredSinks = <<>>) =>
            /\ ~result'.ok
            /\ result'.err = "NO_SINKS_CONFIGURED"
            /\ UNCHANGED managerVars
        /\ result'.ok =>
            /\ Violations = {}
            /\ ConfiguredSinks # <<>>
            /\ alive' = "active"
            /\ sinks' = ConfiguredSinks]_vars

\* The same statement for the first tryBuild() made on a configuration, i.e.
\* with no successful tryBuild()/build() since the builder was constructed or
\* last reset.
NotBuiltYet == \A i \in DOMAIN builderSinks : builderSinks[i] # NoValue

C22_FirstTryBuild ==
    [][(BTryBuild /\ NotBuiltYet) =>
        /\ result'.ok \/ result'.err \in BuilderError
        /\ Violations # {} =>
            /\ ~result'.ok
            /\ result'.err \in Violations
            /\ UNCHANGED managerVars
        /\ \A e \in BuilderError : Violations = {e} => result'.err = e
        /\ (Violations = {} /\ ConfiguredSinks = <<>>) =>
            /\ ~result'.ok
            /\ result'.err = "NO_SINKS_CONFIGURED"
            /\ UNCHANGED managerVars
        /\ result'.ok =>
            /\ Violations = {}
            /\ ConfiguredSinks # <<>>
            /\ alive' = "active"
            /\ sinks' = ConfiguredSinks]_vars

\* ------------------------------------- a manager that is logged to for ever
\* The callers of SpecLM record every message drained and every task
\* submitted, and make a bounded number of calls. Here threads call log() and
\* flush() without end: the messages carry one of RefillIds payloads in turn,
\* the only record kept is the set of payloads the current flush() of a
\* thread has dequeued, and the manager has no sink, so that route() submits
\* nothing.
RefillIds == 3

\* What the callers of this specification leave alone.
refillObs == <<rbObs, logsLeft, flushesLeft, accepted, dropped, drained, submitted,
               inlineFlushes, attempts, callFlushes, atShutdown, bldVars, rend>>

\* A flush() whose loop polls again when tryPop finds the queue empty.
RefillFlush_pollOnEmpty(t) ==
    /\ pc[t] = "flush"
    /\ \E ret \in (1..RefillIds) \cup {NoValue} :
        /\ tryPop(ret)
        /\ IF ret = NoValue
           THEN UNCHANGED <<pc, cur, ri, flushLog>>
           ELSE /\ flushLog' = [flushLog EXCEPT ![t] = @ \cup {ret}]
                /\ IF sinks = <<>>
                   THEN UNCHANGED <<pc, cur, ri>>
                   ELSE /\ pc' = [pc EXCEPT ![t] = "route"]
                        /\ cur' = [cur EXCEPT ![t] = ret]
                        /\ ri' = [ri EXCEPT ![t] = 1]
    /\ UNCHANGED <<poolVars, sinks, alive, inLog, logMsg, written, refillObs, nextId>>

\* LogManager::log(msg), first statement (LogManager.cpp:24-26), called with
\* the next payload.
RefillLog(t) ==
    /\ pc[t] = "idle"
    /\ alive = "active"
    /\ \E ret \in BOOLEAN :
        /\ tryPush(nextId, ret)
        /\ IF ret
           THEN UNCHANGED <<pc, inLog, flushLog>>
           ELSE /\ pc' = [pc EXCEPT ![t] = "flush"]
                /\ inLog' = [inLog EXCEPT ![t] = TRUE]
                /\ flushLog' = [flushLog EXCEPT ![t] = {}]
    /\ logMsg' = [logMsg EXCEPT ![t] = nextId]
    /\ nextId' = (nextId % RefillIds) + 1
    /\ UNCHANGED <<poolVars, sinks, alive, cur, ri, written, refillObs>>

\* log(), last statement: (void)buffer.tryPush(msg) (LogManager.cpp:27).
RefillLogRetry(t) ==
    /\ pc[t] = "retry"
    /\ \E ret \in BOOLEAN : tryPush(logMsg[t], ret)
    /\ pc' = [pc EXCEPT ![t] = "idle"]
    /\ inLog' = [inLog EXCEPT ![t] = FALSE]
    /\ UNCHANGED <<poolVars, sinks, alive, logMsg, cur, ri, written, flushLog,
                   refillObs, nextId>>

\* A caller enters LogManager::flush().
RefillFlushCall(t) ==
    /\ pc[t] = "idle"
    /\ alive = "active"
    /\ pc' = [pc EXCEPT ![t] = "flush"]
    /\ flushLog' = [flushLog EXCEPT ![t] = {}]
    /\ UNCHANGED <<rbVars, poolVars, sinks, alive, inLog, logMsg, cur, ri, written,
                   refillObs, nextId>>

\* flush(): one evaluation of  while (auto msg = buffer.tryPop())
\* (LogManager.cpp:33-36).
RefillFlush(t) ==
    /\ pc[t] = "flush"
    /\ \E ret \in (1..RefillIds) \cup {NoValue} :
        /\ tryPop(ret)
        /\ IF ret = NoValue
           THEN /\ pc' = [pc EXCEPT ![t] = IF inLog[t] THEN "retry" ELSE "flushRet"]
                /\ UNCHANGED <<cur, ri, flushLog>>
           ELSE /\ flushLog' = [flushLog EXCEPT ![t] = @ \cup {ret}]
                /\ IF sinks = <<>>
                   THEN UNCHANGED <<pc, cur, ri>>
                   ELSE /\ pc' = [pc EXCEPT ![t] = "route"]
                        /\ cur' = [cur EXCEPT ![t] = ret]
                        /\ ri' = [ri EXCEPT ![t] = 1]
    /\ UNCHANGED <<poolVars, sinks, alive, inLog, logMsg, written, refillObs, nextId>>

\* flush() hands control back to the thread that called it.
RefillFlushReturn(t) ==
    /\ pc[t] = "flushRet"
    /\ pc' = [pc EXCEPT ![t] = "idle"]
    /\ UNCHANGED <<rbVars, poolVars, sinks, alive, inLog, logMsg, cur, ri, written,
                   flushLog, refillObs, nextId>>

\* A manager of any capacity, constructed directly and given no sink.
RefillInit ==
    /\ \E bufferCapacity \in 0..MaxQueue : LogManagerInit(bufferCapacity, 0)
    /\ ObsInit
    /\ logsLeft = [t \in Threads |-> 0]
    /\ flushesLeft = 0

RefillNext ==
    \E t \in Threads :
        \/ RefillLog(t)
        \/ RefillLogRetry(t)
        \/ RefillFlushCall(t)
        \/ RefillFlush(t)
        \/ RefillFlushReturn(t)

\* A call that has started goes on: the thread running it is scheduled.
\* Nothing obliges a thread to start a call, and nothing stops it.
RefillFairness ==
    \A t \in Threads :
        /\ WF_vars(RefillLogRetry(t))
        /\ WF_vars(RefillFlush(t))
        /\ WF_vars(RefillFlushReturn(t))

FairSpecRefill == RefillInit /\ [][RefillNext]_vars /\ RefillFairness

\* ------------------------------------------------------------------- C23
\* C23: every call to flush() eventually returns, whatever the other
\* threads calling log() do: producers refilling the queue cannot keep the
\* tryPop loop running for ever.
C23_FlushReturns ==
    \A t \in Threads : (pc[t] = "flush") ~> (pc[t] # "flush")

\* What holds: a flush() returns unless messages are stored again and again
\* while it runs, i.e. it returns whenever the other threads store only
\* finitely many messages during the call.
C23_FlushReturnsUnlessRefilled ==
    \A t \in Threads :
        \/ []<><<elemCount' > elemCount>>_vars
        \/ (pc[t] = "flush") ~> (pc[t] # "flush")

\* C23 witness: an explicit flush() has dequeued more messages than the queue
\* holds, so the queue was refilled during the call, and the queue is not
\* empty yet.
C23_RefilledDuringFlush ==
    \E t \in Threads :
        /\ pc[t] = "flush" /\ ~inLog[t]
        /\ maxCapacity >= 1
        /\ Cardinality(flushLog[t]) > maxCapacity
        /\ elemCount > 0

\* ------------------------------------------------------------------- C24
\* C24: a task enqueue accepted is owned by the task queue until one worker
\* removes it, and is then executed exactly once by that worker: at any
\* moment it is in exactly one place, queued once, held by one worker that
\* executes it, or executed once; the worker that removes it is the one
\* whose write executes it; and with terminating task bodies every accepted
\* task is eventually executed.
AllTasks == [sink : SinkIds, msg : 1..MaxTasks]

Queued(task) == Cardinality({i \in DOMAIN tasks : tasks[i] = task})

HeldBy(task) == {w \in Workers : wpc[w] = "run" /\ wtask[w] = task}

Accepted(task) == \E i \in DOMAIN submitted : submitted[i] = task

C24_ExactlyOnce ==
    /\ [](\A task \in AllTasks :
            Queued(task) + Cardinality(HeldBy(task)) + Count(task.sink, task.msg)
                = IF Accepted(task) THEN 1 ELSE 0)
    /\ [][\A w \in Workers :
            /\ (wpc[w] # "run" /\ wpc'[w] = "run") =>
                    /\ tasks # <<>>
                    /\ wtask'[w] = Head(tasks)
                    /\ tasks' = Tail(tasks)
                    /\ \A v \in Workers \ {w} : wpc'[v] = wpc[v] /\ wtask'[v] = wtask[v]
            /\ \A task \in AllTasks :
                (HeldBy(task) = {w} /\ w \notin HeldBy(task)') =>
                    /\ Count(task.sink, task.msg)' = 1
                    /\ HeldBy(task)' = {}
                    /\ Queued(task)' = 0]_vars
    /\ \A task \in AllTasks : Accepted(task) ~> Executed(task)

\* C24 witness: the two workers hold different tasks, a third accepted task
\* is still queued and a fourth has been executed.
C24_TwoHeldOneQueuedOneDone ==
    \E a, b, c, d \in AllTasks :
        /\ Cardinality({a, b, c, d}) = 4
        /\ HeldBy(a) # {} /\ HeldBy(b) # {} /\ HeldBy(a) # HeldBy(b)
        /\ Queued(c) = 1
        /\ Executed(d) /\ Accepted(d)

\* ------------------------------------------- a sink write that never returns
\* The write of the first message to the first sink hangs: the worker that
\* runs this task stays inside ILogSink::write for ever. Every other write
\* returns.
HungTask == [sink |-> 1, msg |-> 1]

HangRunTask(w) == wtask[w] # HungTask /\ LMRunTask(w)

HangNext ==
    \/ \E t \in Threads :
        \/ LMLogAny(t)
        \/ LMLogRetry(t)
        \/ LMFlushCall(t)
        \/ LMFlush(t)
        \/ LMRoute(t)
        \/ LMFlushReturn(t)
    \/ \E w \in Workers :
        \/ LMWorker(w)
        \/ HangRunTask(w)
        \/ LMSpuriousWake(w)

\* The callers and the workers are scheduled fairly, and a write other than
\* the hung one returns.
HangFairness ==
    /\ CallerFairness
    /\ \A w \in Workers : WF_vars(LMWorker(w)) /\ WF_vars(HangRunTask(w))

FairSpecHang == FairLMInit /\ [][HangNext]_vars /\ HangFairness

\* ------------------------------------------------------------------- C25
\* C25: a hung sink write blocks only the worker that runs it: with two or
\* more workers and one task that never returns, at most one worker is
\* inside that task, every other accepted task is eventually executed, an
\* enqueue is never refused or delayed by it, and every log() and flush()
\* that has started returns.
Blocked == {w \in Workers : wpc[w] = "run" /\ wtask[w] = HungTask}

C25_HangBlocksOneWorker ==
    /\ [](Cardinality(Blocked) <= 1)
    /\ \A s \in SinkIds, e \in Events :
            (TaskSubmitted(s, e) /\ [sink |-> s, msg |-> e] # HungTask)
                ~> (Count(s, e) = 1)
    /\ [][\A t \in Threads :
            (pc[t] = "route" /\ Blocked # {}) =>
                (ENABLED LMRoute(t) /\
                 (LMRoute(t) => Len(submitted') = Len(submitted) + 1))]_vars
    /\ \A t \in Threads : (pc[t] # "idle") ~> (pc[t] = "idle")
    /\ [](Count(HungTask.sink, HungTask.msg) = 0)

\* C25 witness: one worker is inside the hung write, and the other worker
\* has executed the second sink's task for the same message and the tasks
\* of a later message while it hangs; the callers are back from their calls.
C25_OthersExecutedWhileHung ==
    /\ Blocked # {}
    /\ Len(sinks) = 2
    /\ Count(2, 1) = 1 /\ Count(1, 2) = 1 /\ Count(2, 2) = 1
    /\ \A t \in Threads : pc[t] = "idle"

\* ------------------------------------------ addSink while the manager is used
\* LogManager has no mutex of its own: addSink appends to the sinks vector
\* and route iterates it with no exclusion between them (LogManager.cpp:3-20).
\* A push_back is not one step for the other threads: between addSinkBegin
\* and addSink the thread is inside sinks.push_back. The range-based for of
\* route evaluates sinks.begin() and sinks.end() once, when the loop begins.

\* An addSink that inserts the sink in front of the registered ones.
addSink_atFront(t, sink, crashed) ==
    /\ pc[t] = "addSink"
    /\ sinks' = <<sink>> \o sinks
    /\ pc' = [pc EXCEPT ![t] = "idle"]
    /\ alive' = IF crashed THEN "terminated" ELSE alive
    /\ UNCHANGED <<rbVars, poolVars, inLog, logMsg, cur, ri, rend, written>>

\* A thread calls addSink(sink) and enters sinks.push_back.
addSinkBegin(t) ==
    /\ pc[t] = "idle"
    /\ alive = "active"
    /\ pc' = [pc EXCEPT ![t] = "addSink"]
    /\ UNCHANGED <<rbVars, poolVars, sinks, alive, inLog, logMsg, cur, ri, rend, written>>

\* Some thread is inside route's loop: it holds iterators into the vector.
Iterating == \E u \in Threads : pc[u] = "route"

\* sinks.push_back(std::move(sink)) completes and addSink returns. When a
\* thread is iterating the vector meanwhile the behaviour is undefined (a
\* data race, and dangling iterators if the vector reallocated): the process
\* crashes, or the iterating thread goes on over the range it began with.
addSink(t, sink, crashed) ==
    /\ pc[t] = "addSink"
    /\ sinks' = Append(sinks, sink)
    /\ pc' = [pc EXCEPT ![t] = "idle"]
    /\ alive' = IF crashed THEN "terminated" ELSE alive
    /\ UNCHANGED <<rbVars, poolVars, inLog, logMsg, cur, ri, rend, written>>

\* route(msg), one iteration of the loop over the range [begin, end) that was
\* evaluated when the loop began.
routeRange(t) ==
    /\ pc[t] = "route"
    /\ LET task == [sink |-> sinks[ri[t]], msg |-> cur[t]] IN
       \E ret \in BOOLEAN :
        /\ enqueue(task, ret)
        /\ submitted' = IF ret THEN Append(submitted, task) ELSE submitted
    /\ IF ri[t] = rend[t]
       THEN /\ pc' = [pc EXCEPT ![t] = "flush"]
            /\ cur' = [cur EXCEPT ![t] = NoValue]
            /\ ri' = [ri EXCEPT ![t] = 0]
       ELSE /\ ri' = [ri EXCEPT ![t] = ri[t] + 1]
            /\ UNCHANGED <<pc, cur>>
    /\ UNCHANGED <<rbVars, shutdown, wtask, sinks, alive, inLog, logMsg, rend,
                   written, accepted, dropped, drained, flushLog,
                   inlineFlushes, attempts, callFlushes>>

\* Threads log, flush and add sinks to a manager constructed without sinks,
\* one addSink at a time; sink k is the k-th one added. A crashed process
\* makes no step: the steps that do not touch the registry are the guarded
\* ones of SpecFault.
ASFlush(t) ==
    /\ Running
    /\ flush(t)
    /\ rend' = IF pc'[t] = "route" THEN [rend EXCEPT ![t] = Len(sinks)] ELSE rend
    /\ UNCHANGED <<rbObs, atShutdown, bldVars, logsLeft, flushesLeft, nextId>>

ASRoute(t) ==
    /\ Running
    /\ routeRange(t)
    /\ UNCHANGED <<rbObs, atShutdown, bldVars, logsLeft, flushesLeft, nextId>>

ASAddSinkBegin(t) ==
    /\ Len(sinks) < MaxSinks
    /\ \A u \in Threads : pc[u] # "addSink"
    /\ addSinkBegin(t)
    /\ UNCHANGED <<rbObs, lmObs, atShutdown, bldVars>>

ASAddSink(t) ==
    /\ Running
    /\ \E crashed \in (IF Iterating THEN BOOLEAN ELSE {FALSE}) :
            addSink(t, Len(sinks) + 1, crashed)
    /\ UNCHANGED <<rbObs, lmObs, atShutdown, bldVars>>

ASInit ==
    /\ \E bufferCapacity \in 0..MaxQueue : LogManagerInit(bufferCapacity, 0)
    /\ ObsInit
    /\ logsLeft = [t \in Threads |-> FairLogs]
    /\ flushesLeft = MaxFlushes

ASNext ==
    \/ \E t \in Threads :
        \/ FaultLog(t)
        \/ FaultLogRetry(t)
        \/ FaultFlushCall(t)
        \/ ASFlush(t)
        \/ ASRoute(t)
        \/ FaultFlushReturn(t)
        \/ ASAddSinkBegin(t)
        \/ ASAddSink(t)
    \/ \E w \in Workers :
        \/ FaultWorker(w)
        \/ FaultRunTask(w)
        \/ FaultSpuriousWake(w)

SpecAddSink == ASInit /\ [][ASNext]_vars

\* ------------------------------------------------------------------- C26
\* C26: addSink and the registry reads of flush are mutually exclusive, no
\* thread is inside route's loop while another thread's addSink is
\* appending; and the registry is append-only, a sink once added is never
\* removed or reordered and gets a task for every event drained later.
AppendOnly == sinks' = sinks \/ \E s \in SinkIds : sinks' = Append(sinks, s)

C26_MutuallyExclusive ==
    /\ [](\A t, u \in Threads : ~(pc[t] = "route" /\ pc[u] = "addSink"))
    /\ [][AppendOnly]_vars
    /\ [](alive = "active")

\* What holds: the registry is append-only; a route() iterates exactly the
\* sinks registered when its loop began, and when it returns each of them
\* has been submitted one task for the message; nothing orders addSink with
\* a route() that is running, which the new sink does not join.
C26_AppendOnlyRegistry ==
    /\ [][AppendOnly]_vars
    /\ [][\A t \in Threads :
            /\ (pc[t] # "route" /\ pc'[t] = "route") =>
                    /\ rend'[t] = Len(sinks)
                    /\ \A u \in Threads : pc[u] # "addSink" =>
                            rend'[t] = Len(sinks')
            /\ (pc[t] = "route" /\ pc'[t] # "route") =>
                    \A i \in 1..rend[t] :
                        Cardinality({k \in DOMAIN submitted' :
                            submitted'[k] = [sink |-> sinks[i], msg |-> cur[t]]}) = 1]_vars
    /\ [](\A k \in DOMAIN submitted : Registered(submitted[k].sink))

\* C26 witness: the second sink was added after the first message had been
\* routed and before the second was: it has a task for the second message
\* only, and the first sink has one for both.
C26_AddedBetweenFlushes ==
    /\ Len(sinks) = 2
    /\ TaskSubmitted(1, 1) /\ ~TaskSubmitted(2, 1)
    /\ TaskSubmitted(1, 2) /\ TaskSubmitted(2, 2)
    /\ \A t \in Threads : pc[t] = "idle"
    /\ alive = "active"

\* ------------------------------------------------------------------- C27
\* C27: conservation under concurrent use. Whatever the interleaving of
\* log() and flush() calls of several threads, no task is submitted twice
\* for the same event and sink, and each logged event is in exactly one
\* place: with the log() call that has not stored it yet, in the queue,
\* dropped by log() after its failed retry, or drained; a drained event has
\* one task per registered sink, the first ones while its route() is still
\* running. Between calls that leaves the three places queue, dropped, one
\* task per sink.
Logged == 1..(nextId - 1)

InQueue(e) == Cardinality({i \in DOMAIN Contents : Contents[i] = e})

TimesDrained(e) == Cardinality({i \in DOMAIN drained : drained[i] = e})

\* The log() call of e found the queue full and has not retried yet.
InCall(e) ==
    Cardinality({t \in Threads : inLog[t] /\ logMsg[t] = e /\ pc[t] # "idle"})

TasksFor(s, e) ==
    Cardinality({k \in DOMAIN submitted : submitted[k] = [sink |-> s, msg |-> e]})

Routing(e) == {t \in Threads : pc[t] = "route" /\ cur[t] = e}

C27_Conservation ==
    /\ \A e \in Logged :
        /\ InCall(e) + InQueue(e) + TimesDrained(e)
                + (IF e \in dropped THEN 1 ELSE 0) = 1
        /\ Cardinality(Routing(e)) <= 1
        /\ Routing(e) # {} => TimesDrained(e) = 1
        /\ \A i \in DOMAIN sinks :
            TasksFor(sinks[i], e) =
                IF TimesDrained(e) = 0 THEN 0
                ELSE IF \E t \in Routing(e) : i >= ri[t] THEN 0 ELSE 1
    /\ \A k \in DOMAIN submitted :
        submitted[k].msg \in Logged /\ Registered(submitted[k].sink)
    /\ (\A t \in Threads : pc[t] = "idle") =>
        \A e \in Logged :
            \/ InQueue(e) = 1 /\ e \notin dropped /\ \A s \in SinkIds : TasksFor(s, e) = 0
            \/ InQueue(e) = 0 /\ e \in dropped /\ \A s \in SinkIds : TasksFor(s, e) = 0
            \/ /\ InQueue(e) = 0 /\ e \notin dropped
               /\ \A i \in DOMAIN sinks : TasksFor(sinks[i], e) = 1

\* C27 witness: two producers found the queue full and run the inline flush
\* at the same time, one of them routing the message it dequeued, while the
\* two messages they were logging wait for the retry.
C27_TwoInlineFlushes ==
    /\ \A t \in Threads : inLog[t] /\ pc[t] \in {"flush", "route"}
    /\ \E t \in Threads : pc[t] = "route" /\ ri[t] = 2
    /\ Cardinality({logMsg[t] : t \in Threads}) = 2

\* ------------------------------------------------------------------- C28
\* The queue is FIFO, so the order in which events were enqueued is the
\* order in which flush() dequeued them: the position in drained.
DrainedAt(e) == CHOOSE i \in DOMAIN drained : drained[i] = e

\* C28: submission order is FIFO across concurrent flushers: if e1 was
\* enqueued before e2, every task for e1 is submitted before any task for
\* e2, also when two threads execute flush() at the same time.
C28_SubmissionFifo ==
    \A p, q \in DOMAIN submitted :
        p < q => DrainedAt(submitted[p].msg) <= DrainedAt(submitted[q].msg)

\* What holds: a task for e2 is submitted ahead of a task for an event e1
\* dequeued earlier only while another thread, the one that dequeued e1, is
\* still inside route(e1); every event dequeued earlier whose route() is
\* over has all its tasks submitted before any task of e2.
C28_FifoUpToRunningRoutes ==
    /\ [](\A i, j \in DOMAIN drained :
            (i < j /\ \E s \in SinkIds : TasksFor(s, drained[j]) > 0) =>
                \/ \A k \in DOMAIN sinks : TasksFor(sinks[k], drained[i]) = 1
                \/ \E t \in Routing(drained[i]) :
                        \A k \in DOMAIN sinks :
                            TasksFor(sinks[k], drained[i]) = IF k < ri[t] THEN 1 ELSE 0)
    /\ [][\A t \in Threads :
            (LMRoute(t) /\ Len(submitted') = Len(submitted) + 1) =>
                /\ submitted'[Len(submitted')].msg = cur[t]
                /\ \A i \in DOMAIN drained :
                    i < DrainedAt(cur[t]) =>
                        \/ \A k \in DOMAIN sinks : TasksFor(sinks[k], drained[i]) = 1
                        \/ Routing(drained[i]) \ {t} # {}]_vars

\* C28 witness: two threads flush at the same time; the tasks of the
\* message dequeued second were submitted before those of the message
\* dequeued first.
C28_SubmittedOutOfOrder ==
    /\ Len(sinks) = 2
    /\ Len(drained) >= 2
    /\ \E p, q \in DOMAIN submitted :
        /\ p < q
        /\ submitted[p].msg = drained[2]
        /\ submitted[q].msg = drained[1]
    /\ \A s \in SinkIds : TasksFor(s, drained[1]) = 1 /\ TasksFor(s, drained[2]) = 1

\* ------------------------------------------------------- a single producer
\* Thread 1 is the only thread that calls log(); any thread may call
\* flush() meanwhile.
SingleInit ==
    /\ \E bufferCapacity \in 0..MaxQueue, nSinks \in 0..MaxSinks :
            LogManagerInit(bufferCapacity, nSinks)
    /\ ObsInit
    /\ logsLeft = [t \in Threads |-> IF t = 1 THEN MaxEvents ELSE 0]
    /\ flushesLeft = MaxFlushes

SingleNext ==
    \/ \E t \in Threads :
        \/ LMLog(t)
        \/ LMLogRetry(t)
        \/ LMFlushCall(t)
        \/ LMFlush(t)
        \/ LMRoute(t)
        \/ LMFlushReturn(t)
    \/ \E w \in Workers :
        \/ LMWorker(w)
        \/ LMRunTask(w)
        \/ LMSpuriousWake(w)

SpecSingle == SingleInit /\ [][SingleNext]_vars

\* ------------------------------------------------------------------- C29
\* C29: with a single producer thread and a capacity of at least 1, log()
\* never drops an event: whenever the first tryPush fails, the inline
\* flush has emptied the queue when the retry is made, the retry succeeds,
\* and every logged event is in the queue or has been submitted to the pool
\* (one task per registered sink once its route() is over).
C29_SingleProducerNeverDrops ==
    maxCapacity >= 1 =>
        /\ dropped = {}
        /\ pc[1] = "retry" => elemCount = 0
        /\ (LogReturned(1) /\ attempts[1] = 2) =>
                /\ callFlushes[1] = 1
                /\ InQueue(logMsg[1]) + TimesDrained(logMsg[1]) = 1
        /\ \A e \in Logged :
            \/ InCall(e) = 1
            \/ InQueue(e) = 1
            \/ /\ TimesDrained(e) = 1
               /\ \A i \in DOMAIN sinks :
                    \/ TasksFor(sinks[i], e) = 1
                    \/ \E t \in Routing(e) : i >= ri[t]

\* C29 witness: the producer has overflowed a queue of capacity 1 twice;
\* both times the retry stored the message, the third message is in the
\* queue and the first two have been submitted to both sinks.
C29_TwoOverflowsNoDrop ==
    /\ maxCapacity = 1 /\ Len(sinks) = 2
    /\ inlineFlushes = 2
    /\ LogReturned(1) /\ attempts[1] = 2
    /\ Contents = <<3>>
    /\ dropped = {}
    /\ \A e \in {1, 2}, s \in SinkIds : TasksFor(s, e) = 1

\* ------------------------------------------------------------------- C30
\* C30: in every reachable state of a RingBuffer of capacity >= 1 the write
\* index is (read index + elemCount) mod capacity, i.e.
\* head == (tail + elemCount) % maxCapacity, the elemCount consecutive slots
\* from the read index on hold a value, and every other slot is empty.
Occupied(i) == ((i - tail + maxCapacity) % maxCapacity) < elemCount

C30_Structure ==
    maxCapacity >= 1 =>
        /\ DOMAIN buffer = 0..(maxCapacity - 1)
        /\ head = (tail + elemCount) % maxCapacity
        /\ \A i \in 0..(maxCapacity - 1) : (buffer[i] # NoValue) <=> Occupied(i)

\* C30 witness: a buffer of capacity 3 whose two elements wrap around the
\* end of the array: slots 2 and 0 hold a value, slot 1 is empty.
C30_WrappedAround ==
    /\ maxCapacity = 3
    /\ tail = 2 /\ elemCount = 2 /\ head = 1
    /\ buffer[2] # NoValue /\ buffer[0] # NoValue /\ buffer[1] = NoValue

\* ------------------------------------------------------------------- C31
\* C31: LogManagerBuilder never produces a manager that holds a null sink:
\* after any sequence of with*, tryBuild/build and reset calls, every sink
\* registered in a returned LogManager is a non-null handle.  A second
\* tryBuild() on the same builder registers the moved-from pointers of the
\* first, so the statement fails.
C31_NoNullSink ==
    alive = "active" => \A i \in DOMAIN sinks : sinks[i] # NoValue

\* ------------------------------------------------------------------- C32
\* The sizes a freshly constructed builder would hold after the calls of the
\* configuration: the last valid size passed, else the default.
RECURSIVE SizeOf(_, _, _)
SizeOf(cs, op, default) ==
    IF cs = <<>> THEN default
    ELSE LET c == cs[Len(cs)]
         IN IF c.op = op /\ c.n # 0 THEN c.n
            ELSE SizeOf(SubSeq(cs, 1, Len(cs) - 1), op, default)

\* C32: reset() returns the builder to the state of a freshly constructed
\* builder: after reset(), for every following sequence of calls, tryBuild
\* behaves exactly as it would on a new LogManagerBuilder (no sinks, no
\* recorded errors, buffer size 100, thread pool size 4).  Stated on what
\* tryBuild returns once reset() was called: the outcome, and the capacity,
\* the number of workers and the sinks of the manager, are those the calls
\* made since the reset give on a new builder.  reset() leaves threadPoolSize
\* as it was, so the statement fails.
C32_ResetIsFresh ==
    [][(BTryBuild /\ LastReset(Len(calls)) > 0 /\ NotBuiltYet) =>
        /\ result'.ok <=> (Violations = {} /\ ConfiguredSinks # <<>>)
        /\ result'.ok =>
            /\ sinks' = ConfiguredSinks
            /\ maxCapacity' = SizeOf(Configuration, "withBufferSize", DefaultBufferSize)
            /\ DOMAIN wpc' =
                1..SizeOf(Configuration, "withthreadPoolSize", DefaultThreadPoolSize)]_vars

\* ------------------------------------------------------------------- C33
\* The violations of the configuration, in the order they were made.
ViolationsInOrder ==
    SelectSeq([i \in DOMAIN Configuration |-> Violation(Configuration[i])],
              LAMBDA e : e # "none")

\* C33: builder violations are sticky and reported first-come: once a with*
\* call has recorded a violation, every later tryBuild returns the first
\* violation recorded, whatever valid with* calls follow, until reset() is
\* called (build throws instead, and neither constructs a manager); a
\* recorded violation takes precedence over NO_SINKS_CONFIGURED; and a
\* rejected with* call leaves the sinks, buffer size and pool size unchanged.
C33_StickyFirstCome ==
    [][/\ errors = ViolationsInOrder
       /\ (BTryBuild /\ ViolationsInOrder # <<>>) =>
            /\ result' = [ok |-> FALSE, err |-> Head(ViolationsInOrder)]
            /\ UNCHANGED <<managerVars, builderSinks, bufferSize, threadPoolSize, errors>>
       /\ (BBuild /\ ViolationsInOrder # <<>>) =>
            /\ result' = [ok |-> FALSE, err |-> "runtime_error"]
            /\ UNCHANGED <<managerVars, builderSinks, bufferSize, threadPoolSize, errors>>
       /\ (Len(calls') > Len(calls) /\ Violation(calls'[Len(calls')]) # "none") =>
            /\ UNCHANGED <<builderSinks, bufferSize, threadPoolSize>>
            /\ errors' = Append(errors, Violation(calls'[Len(calls')]))
       /\ BReset => errors' = <<>>]_vars

\* withBufferSize(0), then a valid withBufferSize, then a different violation
\* with no sink configured: tryBuild has returned INVALID_BUFFER_SIZE.
C33_FirstOfTwoAfterValidCall ==
    /\ Len(calls) = 4
    /\ calls[1].op = "withBufferSize" /\ calls[1].n = 0
    /\ calls[2].op = "withBufferSize" /\ calls[2].n > 0
    /\ calls[3].op = "withthreadPoolSize" /\ calls[3].n = 0
    /\ calls[4].op = "tryBuild"
    /\ builderSinks = <<>>
    /\ bufferSize = calls[2].n
    /\ threadPoolSize = DefaultThreadPoolSize
    /\ errors = <<"INVALID_BUFFER_SIZE", "INVALID_THREADPOOL_SIZE">>
    /\ result = [ok |-> FALSE, err |-> "INVALID_BUFFER_SIZE"]

====
